---------------------------- MODULE Spec2Model ----------------------------
(***************************************************************************)
(* A model of the food-rescue extraction pipeline of training/peft:        *)
(* extract_slack_regex.py (grouper, extractors, item parser, weight        *)
(* estimator, direction classifier, orchestrator) and the two location     *)
(* canonicalizers (slack_api.canonical_loc and                             *)
(* export_slack_audited.canonicalize_location), the rescue log and the    *)
(* audit endpoint of the service (slack_api.create_rescue_log,             *)
(* load_audited, audit_record), the model registry (manage_models.py) and  *)
(* the training pipeline (lambda_train.py).                                *)
(*                                                                         *)
(* Conventions.  Python str is a TLA+ string handled character by          *)
(* character (Len, SubSeq and \o on strings).  Optional[T] is a sequence:  *)
(* None is <<>> and a value v is <<v>>.  A float with at most two decimals *)
(* is the integer of its hundredths (2.5 is 250).  A datetime is its       *)
(* number of minutes.                                                      *)
(***************************************************************************)
EXTENDS Integers, Sequences, FiniteSets, TLC

VARIABLES
  rows,        \* main: the MessageRows read from the export
  window,      \* main: args.group_minutes
  groups,      \* main: the result of group_messages
  records,     \* main: the records emitted so far
  pc,          \* main: position ("start", "grouped", "written", "failed"; "idle" when unused)
  call,        \* a function under check and its arguments (<<>> when unused)
  result,      \* the values its applications returned so far
  rescue_logs,            \* service: the rows of the table rescue_logs
  slack_messages_audited, \* service: the rows of the table slack_messages_audited
  requests,    \* service: the POST /audit requests the thread pool is working on
  registry,    \* the contents of model_registry.json (<<>> when there is no file)
  trainer      \* lambda_train: the LambdaLabsTrainer and the position of its run (<<>> when unused)

mainVars == <<rows, window, groups, records, pc>>
callVars == <<call, result>>
tableVars == <<rescue_logs, slack_messages_audited>>
vars == <<rows, window, groups, records, pc, call, result, rescue_logs, slack_messages_audited, requests, registry, trainer>>

\* the tables of the service hold nothing (they are not used)
TablesEmpty == rescue_logs = <<>> /\ slack_messages_audited = <<>>

\* no request is in the thread pool
NoRequests == requests = <<>>

\* no training pipeline and no registry file
TrainerIdle == registry = <<>> /\ trainer = <<>>

None == <<>>
Some(v) == <<v>>

(***************************************************************************)
(* Strings.                                                                *)
(***************************************************************************)
Ch(s, i) == SubSeq(s, i, i)

LowerLetters == "abcdefghijklmnopqrstuvwxyz"
UpperLetters == "ABCDEFGHIJKLMNOPQRSTUVWXYZ"
Digits == "0123456789"

CharsOf(s) == {Ch(s, i) : i \in 1..Len(s)}

LowerSet == CharsOf(LowerLetters)
UpperSet == CharsOf(UpperLetters)
DigitSet == CharsOf(Digits)
AlphaSet == LowerSet \cup UpperSet
AlnumSet == AlphaSet \cup DigitSet
\* what \s matches and what str.strip() removes, among the characters used
SpaceSet == {" ", "\n", "\t", "\r"}

\* position of a character in a string of distinct characters
IndexIn(c, s) == CHOOSE i \in 1..Len(s) : Ch(s, i) = c

LowerCh(c) == IF c \in UpperSet THEN Ch(LowerLetters, IndexIn(c, UpperLetters)) ELSE c

\* the strings of a sequence, from the one at lo to the one at hi, in one string
RECURSIVE ConcatRange(_, _, _)
ConcatRange(pieces, lo, hi) ==
  IF lo > hi THEN ""
  ELSE IF lo = hi THEN pieces[lo]
  ELSE ConcatRange(pieces, lo, (lo + hi) \div 2) \o ConcatRange(pieces, (lo + hi) \div 2 + 1, hi)

\* "".join(pieces)
Concat(pieces) == ConcatRange(pieces, 1, Len(pieces))

\* str.lower()
Lower(s) == Concat([i \in 1..Len(s) |-> LowerCh(Ch(s, i))])

DropFirst(s, n) == SubSeq(s, n + 1, Len(s))
TakeFirst(s, n) == SubSeq(s, 1, n)

StartsWith(s, p) == Len(p) <= Len(s) /\ TakeFirst(s, Len(p)) = p
EndsWith(s, p) == Len(p) <= Len(s) /\ SubSeq(s, Len(s) - Len(p) + 1, Len(s)) = p
\* p occurs in s at position i
OccursAt(s, p, i) == i >= 1 /\ i + Len(p) - 1 <= Len(s) /\ SubSeq(s, i, i + Len(p) - 1) = p
\* Python's `p in s`
Contains(s, p) == \E i \in 1..(Len(s) - Len(p) + 1) : OccursAt(s, p, i)
\* str.find, 1-based; 0 when absent
Find(s, p) ==
  IF Contains(s, p)
  THEN CHOOSE i \in 1..(Len(s) - Len(p) + 1) :
         OccursAt(s, p, i) /\ \A j \in 1..(i - 1) : ~OccursAt(s, p, j)
  ELSE 0
\* str.rfind, 1-based; 0 when absent
RFind(s, p) ==
  IF Contains(s, p)
  THEN CHOOSE i \in 1..(Len(s) - Len(p) + 1) :
         OccursAt(s, p, i) /\ \A j \in (i + 1)..Len(s) : ~OccursAt(s, p, j)
  ELSE 0

\* str.lstrip(chars), str.rstrip(chars), str.strip(chars) for a set of characters
\* the length of the longest prefix of s made of characters of cs
SpanLen(s, cs) ==
  (CHOOSE i \in 1..(Len(s) + 1) :
     /\ i = Len(s) + 1 \/ Ch(s, i) \notin cs
     /\ \A j \in 1..(i - 1) : Ch(s, j) \in cs) - 1
\* the length of the longest suffix of s made of characters of cs
RSpanLen(s, cs) ==
  CHOOSE k \in 0..Len(s) :
    /\ k = Len(s) \/ Ch(s, Len(s) - k) \notin cs
    /\ \A j \in 1..k : Ch(s, Len(s) - j + 1) \in cs
LStripSet(s, cs) == DropFirst(s, SpanLen(s, cs))
RStripSet(s, cs) == TakeFirst(s, Len(s) - RSpanLen(s, cs))
StripSet(s, cs) == RStripSet(LStripSet(s, cs), cs)
\* str.strip()
Strip(s) == StripSet(s, SpaceSet)

\* s.split(sep)[0]
BeforeFirst(s, sep) == IF Contains(s, sep) THEN TakeFirst(s, Find(s, sep) - 1) ELSE s

\* s.split(sep) for a one-character separator
RECURSIVE Split(_, _)
Split(s, sep) ==
  IF Contains(s, sep)
  THEN <<TakeFirst(s, Find(s, sep) - 1)>> \o Split(DropFirst(s, Find(s, sep)), sep)
  ELSE <<s>>

\* sep.join(parts)
RECURSIVE Join(_, _)
Join(parts, sep) ==
  IF Len(parts) = 0 THEN ""
  ELSE IF Len(parts) = 1 THEN parts[1]
  ELSE parts[1] \o sep \o Join(Tail(parts), sep)

\* s.replace(old, new), all occurrences left to right
RECURSIVE Replace(_, _, _)
Replace(s, old, new) ==
  IF Contains(s, old)
  THEN TakeFirst(s, Find(s, old) - 1) \o new
       \o Replace(DropFirst(s, Find(s, old) + Len(old) - 1), old, new)
  ELSE s

\* re.sub(r"\s+", " ", s): every run of whitespace becomes one space
CollapseSpaces(s) ==
  Concat([i \in 1..Len(s) |->
            IF Ch(s, i) \notin SpaceSet THEN Ch(s, i)
            ELSE IF i = 1 \/ Ch(s, i - 1) \notin SpaceSet THEN " "
            ELSE ""])

\* int(s) for a string of digits
RECURSIVE DigitsValue(_)
DigitsValue(s) ==
  IF s = "" THEN 0
  ELSE 10 * DigitsValue(TakeFirst(s, Len(s) - 1)) + (IndexIn(Ch(s, Len(s)), Digits) - 1)

AllIn(s, cs) == \A i \in 1..Len(s) : Ch(s, i) \in cs

(***************************************************************************)
(* Message Grouper (extract_slack_regex.py).                               *)
(***************************************************************************)
\* parse_iso: a timestamp is written as its number of minutes in decimal
\* digits, which stands for an instant with a UTC offset ("...Z"); the digits
\* followed by "L" stand for a local time without offset, which fromisoformat
\* reads as a naive datetime <<minutes, "naive">>; the empty string and any
\* other text do not parse.
parse_iso(ts) ==
  IF ts = "" THEN None
  ELSE IF AllIn(ts, DigitSet) THEN Some(DigitsValue(ts))
  ELSE IF Len(ts) >= 2 /\ Ch(ts, Len(ts)) = "L" /\ AllIn(SubSeq(ts, 1, Len(ts) - 1), DigitSet)
  THEN <<DigitsValue(SubSeq(ts, 1, Len(ts) - 1)), "naive">>
  ELSE None

\* MessageRow as read_xlsx_messages builds it (thread_ts and reply_count are
\* read by no step of the pipeline and are left out)
MessageRow(ts, user, text, msg_type, subtype) ==
  [ts |-> ts, dt |-> parse_iso(ts), user |-> user, text |-> text,
   msg_type |-> msg_type, subtype |-> subtype]

\* the filter of group_messages
IsUsable(r) == r.msg_type = "message" /\ r.subtype # "channel_join" /\ Strip(r.text) # ""

RECURSIVE SelectRows(_)
SelectRows(rs) ==
  IF rs = <<>> THEN <<>>
  ELSE IF IsUsable(Head(rs)) THEN <<Head(rs)>> \o SelectRows(Tail(rs))
  ELSE SelectRows(Tail(rs))

\* datetime.min, below every parsed timestamp
DtMin == -1
\* the sort key: r.dt or datetime.min
SortKey(r) == IF r.dt = None THEN DtMin ELSE r.dt[1]

\* a faulty variant: a sort that is not stable (a row goes before the rows
\* with its own key)
RECURSIVE InsertByKeyUnstable(_, _)
InsertByKeyUnstable(sorted, r) ==
  IF sorted = <<>> THEN <<r>>
  ELSE IF SortKey(Head(sorted)) < SortKey(r)
       THEN <<Head(sorted)>> \o InsertByKeyUnstable(Tail(sorted), r)
       ELSE <<r>> \o sorted

\* list.sort is stable: a row goes after the rows whose key is not greater
RECURSIVE InsertByKey(_, _)
InsertByKey(sorted, r) ==
  IF sorted = <<>> THEN <<r>>
  ELSE IF SortKey(Head(sorted)) <= SortKey(r)
       THEN <<Head(sorted)>> \o InsertByKey(Tail(sorted), r)
       ELSE <<r>> \o sorted

\* a faulty variant: the rows are scanned in the order of the export
SortRowsSkipped(rs) == rs

RECURSIVE SortRows(_)
SortRows(rs) ==
  IF rs = <<>> THEN <<>>
  ELSE InsertByKey(SortRows(SubSeq(rs, 1, Len(rs) - 1)), rs[Len(rs)])

\* whether the sort key of a row has an offset: datetime.min.replace(tzinfo=
\* timezone.utc) has one, a datetime read from a local time has none
KeyHasOffset(r) == r.dt = None \/ Len(r.dt) = 1

\* list.sort raises TypeError when it compares a key with an offset and a
\* key without
SortRaises(usable) ==
  \E i, j \in 1..Len(usable) : KeyHasOffset(usable[i]) /\ ~KeyHasOffset(usable[j])

\* group_messages ends in the TypeError of its sort
GroupingRaises(rs) == SortRaises(SelectRows(rs))

\* the rows group_messages scans, in scan order
UsableSorted(rs) == SortRows(SelectRows(rs))

\* a faulty variant: a gap of exactly the window starts a new session
JoinsCurrentStrict(current, row, delta) ==
  /\ current # None
  /\ row.user = current[1].user
  /\ row.dt # None
  /\ current[1].last_dt # None
  /\ row.dt[1] - current[1].last_dt[1] < delta

\* the condition under which a row joins the open session
JoinsCurrent(current, row, delta) ==
  /\ current # None
  /\ row.user = current[1].user
  /\ row.dt # None
  /\ current[1].last_dt # None
  /\ row.dt[1] - current[1].last_dt[1] <= delta

AppendRow(cur, row) ==
  [cur EXCEPT !.messages = Append(@, row.text),
              !.timestamps = Append(@, row.ts),
              !.last_dt = row.dt]

NewSession(row) ==
  [user |-> row.user, start_ts |-> row.ts, end_ts |-> row.ts,
   start_dt |-> row.dt, last_dt |-> row.dt,
   messages |-> <<row.text>>, timestamps |-> <<row.ts>>]

\* the scan loop: the sessions closed so far and the open one
RECURSIVE ScanRows(_, _, _, _)
ScanRows(usable, delta, closed, current) ==
  IF usable = <<>>
  THEN IF current # None THEN Append(closed, current[1]) ELSE closed
  ELSE LET row == Head(usable) IN
       IF JoinsCurrent(current, row, delta)
       THEN ScanRows(Tail(usable), delta, closed, Some(AppendRow(current[1], row)))
       ELSE ScanRows(Tail(usable), delta,
                     IF current # None THEN Append(closed, current[1]) ELSE closed,
                     Some(NewSession(row)))

group_messages(rs, window_minutes) == ScanRows(UsableSorted(rs), window_minutes, <<>>, None)

(***************************************************************************)
(* Direction Classifier (extract_slack_regex.py).                          *)
(***************************************************************************)
InboundPhrases ==
  <<"rescued from", "rescue from", "picked up from", "pickup from", "picked up at",
    "today from", "earlier today from", "drop off at uc", "dropped off at uc",
    "dropped at uc", "left at uc", "left in the warehouse", "dropped at warehouse",
    "dropped ", "left in", "left at", "drop off">>

OutboundPhrases ==
  <<"dropped off", "drop off", "delivered to", "deliver to", "brought to", "took to",
    "taking to", "grabbed", "grabbed for", "took", "took ", "picked up for",
    "for distro", "headed to", "delivered", "delivery to", "for love fridge",
    "for lf", "stocked">>

\* any(phrase in lower for phrase in phrases)
AnyIn(lower, phrases) == \E k \in 1..Len(phrases) : Contains(lower, phrases[k])

\* a faulty variant: the keywords of the text are consulted before the locations
detect_direction_by_keywords(text, rescue_loc, drop_loc) ==
  IF AnyIn(Lower(text), InboundPhrases) /\ AnyIn(Lower(text), OutboundPhrases) THEN "both"
  ELSE IF AnyIn(Lower(text), InboundPhrases) THEN "inbound"
  ELSE IF AnyIn(Lower(text), OutboundPhrases) THEN "outbound"
  ELSE IF rescue_loc # "" /\ drop_loc # "" THEN "both"
  ELSE IF rescue_loc # "" THEN "inbound"
  ELSE IF drop_loc # "" THEN "outbound"
  ELSE "unknown"

detect_direction(text, rescue_loc, drop_loc) ==
  IF rescue_loc # "" /\ drop_loc # "" THEN "both"
  ELSE IF rescue_loc # "" THEN "inbound"
  ELSE IF drop_loc # "" THEN "outbound"
  ELSE LET lower == Lower(text)
           inbound == AnyIn(lower, InboundPhrases)
           outbound == AnyIn(lower, OutboundPhrases)
       IN IF inbound /\ outbound THEN "both"
          ELSE IF inbound THEN "inbound"
          ELSE IF outbound THEN "outbound"
          ELSE "unknown"

(***************************************************************************)
(* Category inference (extract_slack_regex.py).                            *)
(***************************************************************************)
CategoryTable ==
  << <<"drinks", <<"water", "juice", "soda", "coffee", "tea", "latte", "drink",
                   "beverage", "milk", "kombucha", "sparkling", "sports drink",
                   "coconut water">> >>,
     <<"snacks", <<"snack", "chips", "cracker", "pretzel", "cookie", "popcorn",
                   "granola", "trail mix", "protein bar", "granola bar", "candy",
                   "nuts", "almond", "peanut", "cashew", "pistachio">> >>,
     <<"produce", <<"apple", "orange", "banana", "little banana", "berry", "grape",
                    "melon", "clementine", "fruit", "green", "greens", "lettuce",
                    "cabbage", "potato", "onion", "pepper", "tomato", "carrot",
                    "spinach", "produce", "vegetable", "brussel", "brussels", "pear",
                    "lemon", "grapefruit", "guava", "cuke", "cucumber", "bean",
                    "split pea", "broccoli", "brocolli">> >>,
     <<"grain", <<"bread", "loaf", "loaves", "rice", "pasta", "grain", "tortilla",
                  "dessert", "cake", "bun">> >>,
     <<"meat", <<"chicken", "beef", "pork", "turkey", "meat", "steak", "sausage",
                 "ribs">> >>,
     <<"dry goods", <<"canned", "dry goods", "pantry", "shelf stable", "flour",
                      "sugar", "salt", "spice", "seasoning", "oil", "vinegar",
                      "beans", "lentil", "lentils", "chickpea", "oat", "oats",
                      "oatmeal", "cereal", "broth", "stock", "sauce", "condiment">> >>,
     <<"dairy", <<"milk", "cheese", "yogurt", "butter", "cream", "half and half",
                  "cottage cheese", "sour cream", "kefir">> >>,
     <<"seafood", <<"scallop", "scallops", "fish", "shrimp", "salmon", "tuna">> >> >>

\* first category, in order, one of whose tokens occurs in the lower-cased name
categorize_item(name) ==
  LET lower == Lower(name)
      hits == {k \in 1..Len(CategoryTable) : AnyIn(lower, CategoryTable[k][2])}
  IN IF hits = {} THEN ""
     ELSE CategoryTable[CHOOSE k \in hits : \A j \in hits : k <= j][1]

(***************************************************************************)
(* Weight Estimator (extract_slack_regex.py).  A dict is the sequence of   *)
(* its <<key, value>> pairs in iteration order; a weight or a rate is the  *)
(* integer of its hundredths.                                              *)
(***************************************************************************)
HasKey(d, k) == \E i \in 1..Len(d) : d[i][1] = k
\* d.get(k, default)
GetOr(d, k, default) ==
  IF HasKey(d, k) THEN d[CHOOSE i \in 1..Len(d) : d[i][1] = k][2] ELSE default

\* max(a, b)
Max(a, b) == IF a >= b THEN a ELSE b

\* round(x, 2) of a value given in ten-thousandths, to hundredths, ties to even
RoundHundredths(n) ==
  LET q == n \div 100
      r == n % 100
  IN IF 2 * r < 100 THEN q
     ELSE IF 2 * r > 100 THEN q + 1
     ELSE IF q % 2 = 0 THEN q ELSE q + 1

\* the configuration load_weight_config falls back to
EmptyWeightConfig == <<>>

\* the rate the built-in ladder (the final else branch) leaves
LadderRate(per_unit, unit_norm, name_norm) ==
  IF Contains(unit_norm, "bag") THEN Max(per_unit, 800)
  ELSE IF Contains(unit_norm, "bin") \/ Contains(unit_norm, "tote")
          \/ Contains(unit_norm, "crate") THEN Max(per_unit, 2500)
  ELSE IF Contains(unit_norm, "box") \/ Contains(unit_norm, "case")
          \/ Contains(unit_norm, "cs") \/ Contains(unit_norm, "pkg")
          \/ Contains(unit_norm, "package") THEN Max(per_unit, 1500)
  ELSE IF Contains(unit_norm, "flat") THEN Max(per_unit, 1200)
  ELSE IF Contains(unit_norm, "gallon") \/ Contains(unit_norm, "gal") THEN Max(per_unit, 800)
  ELSE IF unit_norm \in {"lb", "pound", "pounds"} THEN 100
  ELSE IF Contains(unit_norm, "dozen") \/ unit_norm = "dz" THEN Max(per_unit, 400)
  ELSE IF Contains(unit_norm, "loaf") THEN Max(per_unit, 50)
  ELSE IF Contains(unit_norm, "bottle") \/ Contains(unit_norm, "can")
          \/ Contains(unit_norm, "jar") THEN Max(per_unit, 200)
  ELSE IF Contains(unit_norm, "tray") \/ Contains(unit_norm, "clamshell") THEN Max(per_unit, 300)
  ELSE IF Contains(unit_norm, "bunch") THEN Max(per_unit, 500)
  ELSE IF Contains(unit_norm, "each") THEN Max(per_unit, 200)
  ELSE IF Contains(name_norm, "bread") \/ Contains(name_norm, "dessert") THEN Max(per_unit, 250)
  ELSE per_unit

\* the rate after the unit step (unit_overrides, multi-word units, ladder)
UnitFloorRate(cfg, per_unit, unit_norm, name_norm) ==
  LET unit_overrides == GetOr(cfg, "unit_overrides", <<>>) IN
  IF HasKey(unit_overrides, unit_norm)
  THEN Max(per_unit, GetOr(unit_overrides, unit_norm, per_unit))
  ELSE IF Contains(unit_norm, " ")
       THEN IF HasKey(unit_overrides, unit_norm) /\ GetOr(unit_overrides, unit_norm, 0) # 0
            THEN Max(per_unit, GetOr(unit_overrides, unit_norm, 0))
            ELSE per_unit
       ELSE LadderRate(per_unit, unit_norm, name_norm)

\* a faulty variant: a category rate only raises the rate
CategoryRateRaised(cfg, per_unit, name_norm) ==
  LET base_cfg == GetOr(cfg, "base", <<>>)
      food_map == GetOr(cfg, "food_weights", <<>>)
      hit(cat) == AnyIn(name_norm, GetOr(food_map, cat, <<>>))
  IN IF hit("produce_heavy") THEN Max(per_unit, GetOr(base_cfg, "produce_heavy", per_unit))
     ELSE IF hit("produce_light") THEN Max(per_unit, GetOr(base_cfg, "produce_light", per_unit))
     ELSE IF hit("meat") THEN Max(per_unit, GetOr(base_cfg, "meat", per_unit))
     ELSE IF hit("dairy") THEN Max(per_unit, GetOr(base_cfg, "dairy", per_unit))
     ELSE IF hit("seafood") THEN Max(per_unit, GetOr(base_cfg, "meat", per_unit))
     ELSE per_unit

\* the rate after the category step
CategoryRate(cfg, per_unit, name_norm) ==
  LET base_cfg == GetOr(cfg, "base", <<>>)
      food_map == GetOr(cfg, "food_weights", <<>>)
      hit(cat) == AnyIn(name_norm, GetOr(food_map, cat, <<>>))
  IN IF hit("produce_heavy") THEN GetOr(base_cfg, "produce_heavy", per_unit)
     ELSE IF hit("produce_light") THEN GetOr(base_cfg, "produce_light", per_unit)
     ELSE IF hit("meat") THEN GetOr(base_cfg, "meat", per_unit)
     ELSE IF hit("dairy") THEN GetOr(base_cfg, "dairy", per_unit)
     ELSE IF hit("seafood") THEN GetOr(base_cfg, "meat", per_unit)
     ELSE per_unit

\* the item_specific entries that apply: keyword in the name, rate for the unit
ItemSpecificHits(cfg, unit_norm, name_norm) ==
  LET item_specific == GetOr(cfg, "item_specific", <<>>)
  IN {i \in 1..Len(item_specific) :
        Contains(name_norm, item_specific[i][1]) /\ HasKey(item_specific[i][2], unit_norm)}

\* a faulty variant: the estimate is returned whatever its sign
AnyEstimate(estimate) == Some(estimate)

\* estimate if estimate >= 0 else None
NonNegativeOrNone(estimate) == IF estimate >= 0 THEN Some(estimate) ELSE None

\* a faulty variant: the item-specific overrides are consulted before the
\* direct weight units
estimate_weight_by_override(cfg, qty, unit, name) ==
  IF qty = None \/ qty[1] <= 0 THEN None
  ELSE LET unit_norm == IF unit = None THEN "" ELSE Lower(unit[1])
           name_norm == Lower(name)
           per_unit == GetOr(GetOr(cfg, "base", <<>>), "default", 500)
           hits == ItemSpecificHits(cfg, unit_norm, name_norm)
       IN IF hits # {}
          THEN LET first == CHOOSE i \in hits : \A j \in hits : i <= j
                   rate == GetOr(GetOr(cfg, "item_specific", <<>>)[first][2], unit_norm, 0)
               IN NonNegativeOrNone(RoundHundredths(rate * qty[1]))
          ELSE IF unit_norm \in {"lb", "lbs", "pound", "pounds"}
          THEN Some(qty[1])
          ELSE NonNegativeOrNone(RoundHundredths(
                 UnitFloorRate(cfg, CategoryRate(cfg, per_unit, name_norm),
                               unit_norm, name_norm) * qty[1]))

estimate_weight(cfg, qty, unit, name) ==
  IF qty = None \/ qty[1] <= 0 THEN None
  ELSE LET unit_norm == IF unit = None THEN "" ELSE Lower(unit[1])
           name_norm == Lower(name)
           per_unit == GetOr(GetOr(cfg, "base", <<>>), "default", 500)
           hits == ItemSpecificHits(cfg, unit_norm, name_norm)
       IN IF unit_norm \in {"lb", "lbs", "pound", "pounds"}
          THEN Some(qty[1])
          ELSE IF hits # {}
          THEN LET first == CHOOSE i \in hits : \A j \in hits : i <= j
                   rate == GetOr(GetOr(cfg, "item_specific", <<>>)[first][2], unit_norm, 0)
               IN NonNegativeOrNone(RoundHundredths(rate * qty[1]))
          ELSE NonNegativeOrNone(RoundHundredths(
                 UnitFloorRate(cfg, CategoryRate(cfg, per_unit, name_norm),
                               unit_norm, name_norm) * qty[1]))

(***************************************************************************)
(* Item Parser (extract_slack_regex.py).  The regular expressions are      *)
(* translated by hand, keeping the order in which the backtracking matcher *)
(* tries alternatives.  Texts are ASCII: the NBSP and bullet replacements  *)
(* of normalize_text and split_item_segments have nothing to replace.      *)
(***************************************************************************)
\* \w
WordSet == AlnumSet \cup {"_"}
IsWordAt(s, i) == i >= 1 /\ i <= Len(s) /\ Ch(s, i) \in WordSet
\* \b between the characters i-1 and i
BoundaryAt(s, i) == IsWordAt(s, i - 1) # IsWordAt(s, i)
\* the literal w occurs at i, ignoring case
WordAt(s, w, i) == i >= 1 /\ i + Len(w) - 1 <= Len(s) /\ Lower(SubSeq(s, i, i + Len(w) - 1)) = w
\* the position after the whitespace run that starts at i
SkipSpaces(s, i) == i + SpanLen(DropFirst(s, i - 1), SpaceSet)
\* the first literal of ws, in order, that occurs at i ignoring case; "" if none
FirstWordAt(s, ws, i) ==
  LET hits == {k \in 1..Len(ws) : WordAt(s, ws[k], i)}
  IN IF hits = {} THEN "" ELSE ws[CHOOSE k \in hits : \A j \in hits : k <= j]

normalize_text(text) == Strip(Replace(Replace(text, "\r\n", "\n"), "\r", "\n"))

NUMBER_WORDS ==
  << <<"zero", "0">>, <<"one", "1">>, <<"two", "2">>, <<"three", "3">>, <<"four", "4">>,
     <<"five", "5">>, <<"six", "6">>, <<"seven", "7">>, <<"eight", "8">>, <<"nine", "9">>,
     <<"ten", "10">>, <<"eleven", "11">>, <<"twelve", "12">>, <<"half", "0.5">> >>

\* the word (run of word characters) that starts at position i of s after a
\* word boundary, in lower case; "" when no word starts there
WordFrom(s, i) ==
  IF IsWordAt(s, i) /\ ~IsWordAt(s, i - 1)
  THEN Lower(TakeFirst(DropFirst(s, i - 1), SpanLen(DropFirst(s, i - 1), WordSet)))
  ELSE ""

\* the index in NUMBER_WORDS of a word in lower case, 0 when it is not there
NumberWordIndex(word) ==
  IF \E k \in 1..Len(NUMBER_WORDS) : NUMBER_WORDS[k][1] = word
  THEN CHOOSE k \in 1..Len(NUMBER_WORDS) : NUMBER_WORDS[k][1] = word
  ELSE 0

\* where the word that holds position i of s starts
WordStart(s, i) == i - RSpanLen(TakeFirst(s, i - 1), WordSet)

\* what position i of s contributes when the word that holds it starts at j
\* and is number k of NUMBER_WORDS, or not a number word (k = 0)
NumberizePiece(s, i, j, k) ==
  IF k = 0 THEN Ch(s, i)
  ELSE IF i = j THEN NUMBER_WORDS[k][2]
  ELSE ""

\* re.sub(r"\b(zero|...|half)\b", repl, text, IGNORECASE): a number word
\* between word boundaries becomes its digits; what position i of s
\* contributes to the result
NumberizeAt(s, i) ==
  IF ~IsWordAt(s, i) THEN Ch(s, i)
  ELSE NumberizePiece(s, i, WordStart(s, i), NumberWordIndex(WordFrom(s, WordStart(s, i))))

numberize_words(text) == Concat([i \in 1..Len(text) |-> NumberizeAt(text, i)])

\* the pieces of s between characters of cs
RECURSIVE SplitOnSet(_, _)
SplitOnSet(s, cs) ==
  LET n == SpanLen(s, CharsOf(s) \ cs)
  IN IF n = Len(s) THEN <<s>>
     ELSE <<TakeFirst(s, n)>> \o SplitOnSet(DropFirst(s, n + 1), cs)

\* AND_SPLIT_RE.split(block): the pieces of block[i..] between the matches
\* of \b(?:and|&)\b, `from` being the start of the piece under way
RECURSIVE AndSplitFrom(_, _, _)
AndSplitFrom(s, from, i) ==
  IF i > Len(s) THEN <<SubSeq(s, from, Len(s))>>
  ELSE LET n == IF OccursAt(s, "and", i) /\ BoundaryAt(s, i) /\ BoundaryAt(s, i + 3) THEN 3
                ELSE IF OccursAt(s, "&", i) /\ BoundaryAt(s, i) /\ BoundaryAt(s, i + 1) THEN 1
                ELSE 0
       IN IF n = 0 THEN AndSplitFrom(s, from, i + 1)
          ELSE <<SubSeq(s, from, i - 1)>> \o AndSplitFrom(s, i + n, i + n)

\* strip(" -\t") each piece and keep the non-empty ones
RECURSIVE StrippedNonEmpty(_)
StrippedNonEmpty(parts) ==
  IF parts = <<>> THEN <<>>
  ELSE LET part == StripSet(Head(parts), {" ", "-", "\t"})
       IN (IF part # "" THEN <<part>> ELSE <<>>) \o StrippedNonEmpty(Tail(parts))

RECURSIVE SegmentsOfBlocks(_)
SegmentsOfBlocks(blocks) ==
  IF blocks = <<>> THEN <<>>
  ELSE StrippedNonEmpty(AndSplitFrom(Head(blocks), 1, 1)) \o SegmentsOfBlocks(Tail(blocks))

\* LINE_SPLIT_RE turns every run of | ; / , and newlines into one newline and
\* empty blocks are skipped: the blocks are the pieces between these characters
split_item_segments(text) ==
  SegmentsOfBlocks(StrippedNonEmpty(SplitOnSet(text, {"|", ";", "/", ",", "\n"})))

ITEM_UNIT_MAP ==
  << <<"cs", "case">>, <<"case", "case">>, <<"cases", "case">>, <<"box", "box">>,
     <<"boxes", "box">>, <<"bin", "bin">>, <<"bins", "bin">>, <<"bag", "bag">>,
     <<"bags", "bag">>, <<"shopping bag", "bag">>, <<"shopping bags", "bag">>,
     <<"tote", "tote">>, <<"totes", "tote">>, <<"crate", "crate">>, <<"crates", "crate">>,
     <<"flat", "flat">>, <<"flats", "flat">>, <<"pkg", "package">>, <<"pkgs", "package">>,
     <<"package", "package">>, <<"packages", "package">>, <<"pallet", "pallet">>,
     <<"pallets", "pallet">>, <<"lb", "lb">>, <<"lbs", "lb">>, <<"pound", "lb">>,
     <<"pounds", "lb">>, <<"gal", "gallon">>, <<"gals", "gallon">>, <<"gallon", "gallon">>,
     <<"gallons", "gallon">>, <<"dozen", "dozen">>, <<"dz", "dozen">>, <<"bottle", "bottle">>,
     <<"bottles", "bottle">>, <<"can", "can">>, <<"cans", "can">>, <<"loaf", "loaf">>,
     <<"loaves", "loaf">>, <<"bunch", "bunch">>, <<"bunches", "bunch">>, <<"tray", "tray">>,
     <<"trays", "tray">>, <<"jar", "jar">>, <<"jars", "jar">>, <<"clamshell", "clamshell">>,
     <<"clamshells", "clamshell">> >>

\* the unit alternatives of ITEM_PATTERN as the literals they can match, in the
\* order the matcher tries them ("x?" tries x first); "shopping\s+bags?" is
\* written with one space and matched with any whitespace run
UnitLiterals ==
  <<"cs", "cases", "case", "boxes", "boxe", "box", "bins", "bin", "bags", "bag",
    "shopping bags", "shopping bag", "totes", "tote", "crates", "crate", "flats", "flat",
    "pkgs", "pkg", "packages", "package", "pallets", "pallet", "lbs", "lb",
    "pounds", "pound", "gals", "gal", "gallons", "gallon", "dozen", "dz",
    "bottles", "bottle", "bottls", "bottl", "cans", "can", "loaves", "loave", "loaf",
    "bunches", "bunch", "trays", "tray", "jars", "jar", "clamshells", "clamshell">>

\* the length the unit literal u matches at the start of rest, 0 if it does not
UnitMatchLen(rest, u) ==
  IF StartsWith(u, "shopping ")
  THEN LET e == SkipSpaces(rest, 9)
       IN IF WordAt(rest, "shopping", 1) /\ e > 9 /\ WordAt(rest, DropFirst(u, 9), e)
          THEN e + Len(u) - 10 ELSE 0
  ELSE IF WordAt(rest, u, 1) THEN Len(u) ELSE 0

\* \s*(?:of\s+)?(?P<name>[A-Za-z][^,;|\n]*) followed by the lookahead: the
\* name, or "" when the tail does not match
ItemTail(rest) ==
  LET i == SkipSpaces(rest, 1)
      j == SkipSpaces(rest, i + 2)
      start == IF WordAt(rest, "of", i) /\ j > i + 2 /\ j <= Len(rest) /\ Ch(rest, j) \in AlphaSet
               THEN j
               ELSE IF i <= Len(rest) /\ Ch(rest, i) \in AlphaSet THEN i ELSE 0
  IN IF start = 0 THEN ""
     ELSE LET r == DropFirst(rest, start - 1)
          IN TakeFirst(r, SpanLen(r, CharsOf(r) \ {",", ";", "|", "\n"}))

\* the optional unit and the tail, matched at the start of rest:
\* <<unit, name>> of the first alternative that matches, <<>> if none does
UnitAndTail(rest) ==
  LET ok == {k \in 1..Len(UnitLiterals) :
               /\ UnitMatchLen(rest, UnitLiterals[k]) > 0
               /\ ItemTail(DropFirst(rest, UnitMatchLen(rest, UnitLiterals[k]))) # ""}
  IN IF ok # {}
     THEN LET k == CHOOSE k \in ok : \A j \in ok : k <= j
              n == UnitMatchLen(rest, UnitLiterals[k])
          IN <<TakeFirst(rest, n), ItemTail(DropFirst(rest, n))>>
     ELSE IF ItemTail(rest) # "" THEN <<"", ItemTail(rest)>>
     ELSE <<>>

\* ITEM_PATTERN.match(segment): <<qty, unit, name>> as matched, <<>> if no match
ItemPatternMatch(segment) ==
  LET a == SkipSpaces(segment, 1)
      b == a + SpanLen(DropFirst(segment, a - 1), {"-", "*", "["})
      c == SkipSpaces(segment, b)
      d == SkipSpaces(segment, IF OccursAt(segment, "~", c) THEN c + 1 ELSE c)
      n1 == SpanLen(DropFirst(segment, d - 1), DigitSet)
      n2 == IF OccursAt(segment, ".", d + n1)
            THEN SpanLen(DropFirst(segment, d + n1), DigitSet) ELSE 0
      e == IF n2 > 0 THEN d + n1 + 1 + n2 ELSE d + n1
      f == SkipSpaces(segment, e)
      adj == FirstWordAt(segment, <<"small", "sm", "large", "lrg", "big">>, f)
      g == SkipSpaces(segment, f + Len(adj))
      withAdj == IF adj # "" /\ g > f + Len(adj)
                 THEN UnitAndTail(DropFirst(segment, g - 1)) ELSE <<>>
      without == UnitAndTail(DropFirst(segment, f - 1))
      qty == SubSeq(segment, d, e - 1)
  IN IF n1 = 0 THEN <<>>
     ELSE IF withAdj # <<>> THEN <<qty>> \o withAdj
     ELSE IF without # <<>> THEN <<qty>> \o without
     ELSE <<>>

\* float(qty_raw) in hundredths (quantities are written with at most two decimals)
QtyValue(qty_raw) ==
  LET int == BeforeFirst(qty_raw, ".")
      frac == IF Contains(qty_raw, ".") THEN DropFirst(qty_raw, Len(int) + 1) ELSE ""
  IN 100 * DigitsValue(int) + DigitsValue(TakeFirst(frac \o "00", 2))

\* the length a literal of ws matches at i when a \b follows it, 0 if none does
WordThenBoundary(s, ws, i) ==
  LET hits == {k \in 1..Len(ws) : WordAt(s, ws[k], i) /\ BoundaryAt(s, i + Len(ws[k]))}
  IN IF hits = {} THEN 0 ELSE Len(ws[CHOOSE k \in hits : TRUE])

\* the length of the match at i of one of the patterns parse_items removes
\* from a name, 0 when it does not match there:
\*   "cooler"   \b(?:in|on|inside)\s+(?:the\s+)?(?:cooler|freezer|fridge|fridges?)\b
\*   "big bags" \bbig\s+bags?\s+
\*   "bags"     \bbags?\b
\*   "spaces"   \s{2,}
PatternLen(kind, s, i) ==
  CASE kind = "cooler" ->
         LET prep == FirstWordAt(s, <<"inside", "in", "on">>, i)
             j == i + Len(prep)
             k == SkipSpaces(s, j)
             k2 == SkipSpaces(s, k + 3)
             places == <<"cooler", "freezer", "fridge", "fridges">>
             direct == WordThenBoundary(s, places, k)
             afterThe == IF WordAt(s, "the", k) /\ k2 > k + 3
                         THEN WordThenBoundary(s, places, k2) ELSE 0
         IN IF prep = "" \/ ~BoundaryAt(s, i) \/ k = j THEN 0
            ELSE IF afterThe > 0 THEN k2 + afterThe - i
            ELSE IF direct > 0 THEN k + direct - i
            ELSE 0
    [] kind = "big bags" ->
         LET j == SkipSpaces(s, i + 3)
             n == IF WordAt(s, "bags", j) /\ SkipSpaces(s, j + 4) > j + 4 THEN 4
                  ELSE IF WordAt(s, "bag", j) /\ SkipSpaces(s, j + 3) > j + 3 THEN 3
                  ELSE 0
         IN IF WordAt(s, "big", i) /\ BoundaryAt(s, i) /\ j > i + 3 /\ n > 0
            THEN SkipSpaces(s, j + n) - i ELSE 0
    [] kind = "bags" ->
         IF BoundaryAt(s, i) THEN WordThenBoundary(s, <<"bags", "bag">>, i) ELSE 0
    [] kind = "spaces" ->
         IF SkipSpaces(s, i) >= i + 2 THEN SkipSpaces(s, i) - i ELSE 0

\* re.sub(pattern, repl, s) from position i on: every match, left to right
RECURSIVE SubAll(_, _, _, _)
SubAll(kind, repl, s, i) ==
  IF i > Len(s) THEN ""
  ELSE IF PatternLen(kind, s, i) > 0
       THEN repl \o SubAll(kind, repl, s, i + PatternLen(kind, s, i))
       ELSE Ch(s, i) \o SubAll(kind, repl, s, i + 1)

\* re.sub(r"\(([^)]{1,80})\)\s*$", "", name): the leftmost "(" that opens a
\* note of 1 to 80 characters closed by ")" at the end of the name
StripTrailingNote(name) ==
  LET opens == {i \in 1..Len(name) :
                  /\ Ch(name, i) = "("
                  /\ LET rest == DropFirst(name, i)
                         k == SpanLen(rest, CharsOf(rest) \ {")"})
                     IN /\ k >= 1 /\ k <= 80 /\ k < Len(rest)
                        /\ AllIn(DropFirst(rest, k + 1), SpaceSet)}
  IN IF opens = {} THEN name
     ELSE TakeFirst(name, (CHOOSE i \in opens : \A j \in opens : i <= j) - 1)

\* ^(?P<item>.+?)\s+(?P<unit>boxes?|box|cases?|case|crates?|totes?|bins?|bags?)$ :
\* <<item, unit>> when the last word of the name is such a unit, <<>> otherwise
TrailingUnit(name) ==
  LET starts == {i \in 2..Len(name) : Ch(name, i - 1) \in SpaceSet
                                      /\ ~\E j \in i..Len(name) : Ch(name, j) \in SpaceSet}
  IN IF starts = {} THEN <<>>
     ELSE LET i == CHOOSE i \in starts : TRUE
              word == Lower(DropFirst(name, i - 1))
              item == RStripSet(TakeFirst(name, i - 1), SpaceSet)
          IN IF /\ word \in {"boxes", "boxe", "box", "cases", "case", "crates", "crate",
                             "totes", "tote", "bins", "bin", "bags", "bag"}
                /\ item # "" /\ ~Contains(name, "\n")
             THEN <<item, word>>
             ELSE <<>>

\* ^(?:big|large|lrg)?\s*bags?\b\s+(.*)$ : <<group 1>>, <<>> when no match
LeadingBag(name) ==
  LET adj == FirstWordAt(name, <<"big", "large", "lrg">>, 1)
      i == SkipSpaces(name, 1 + Len(adj))
      n == WordThenBoundary(name, <<"bags", "bag">>, i)
      j == SkipSpaces(name, i + n)
  IN IF n > 0 /\ j > i + n /\ ~Contains(name, "\n")
     THEN <<DropFirst(name, j - 1)>>
     ELSE <<>>

\* re.sub(r"^(?:adjectives)\s+", "", name) and, with a tail, the substitution
\* r"^(?:adjectives)\s+(split\s+peas?)" -> r"\1"
StripLeadingAdj(name, adjs, needSplitPeas) ==
  LET adj == FirstWordAt(name, adjs, 1)
      i == SkipSpaces(name, 1 + Len(adj))
      j == SkipSpaces(name, i + 5)
  IN IF adj # "" /\ i > 1 + Len(adj)
        /\ (needSplitPeas => WordAt(name, "split", i) /\ j > i + 5 /\ WordAt(name, "pea", j))
     THEN DropFirst(name, i - 1)
     ELSE name

\* ITEM_UNIT_MAP.get(key, key or None)
NormalizeUnit(key) ==
  IF HasKey(ITEM_UNIT_MAP, key) THEN Some(GetOr(ITEM_UNIT_MAP, key, key))
  ELSE IF key # "" THEN Some(key)
  ELSE None

\* len(re.sub(r"[^a-z]", "", name.lower()))
AlphaLen(name) == Cardinality({i \in 1..Len(name) : LowerCh(Ch(name, i)) \in LowerSet})

\* len(name.split()): the number of whitespace-separated words
WordCount(name) ==
  Cardinality({i \in 1..Len(name) :
                 Ch(name, i) \notin SpaceSet /\ (i = 1 \/ Ch(name, i - 1) \in SpaceSet)})

BlockedTokens ==
  <<"google", "docs.google", "guide", "meeting", "channel", "thermometer", "dumpster",
    "door", "code", "recycling", "compost", "cardboard", "loading", "schedule">>

\* typo_map.get(name, name)
FixTypo(name) ==
  IF name = "brocolli" THEN "broccoli"
  ELSE IF name = "brussel sprouts" THEN "brussels sprouts"
  ELSE name

\* lines 570 to 578: the words "bag" and "bags" go, then an adjective before
\* "split peas", then runs of spaces; the name is lowered and a typo is fixed
StripBagWords(name, unit_norm) ==
  << FixTypo(Strip(Lower(Strip(SubAll("spaces", " ",
       StripLeadingAdj(Strip(SubAll("bags", "", name, 1)),
                       <<"big", "large", "small", "lrg">>, TRUE), 1))))),
     unit_norm >>

\* lines 568 and 569: a name that starts with "big bags" loses the big bags
StripBigBags(name, unit_norm) ==
  StripBagWords(IF StartsWith(Lower(name), "big bags")
                THEN Strip(SubAll("big bags", "", name, 1)) ELSE name,
                unit_norm)

\* lines 566 and 567: with a bag unit, the adjective that led the name (as it
\* was before the bag match) goes
StripBagAdjective(lower_name, name, unit_norm) ==
  StripBigBags(IF /\ unit_norm \in {Some("bag"), Some("bags")}
                  /\ (StartsWith(lower_name, "big") \/ StartsWith(lower_name, "large")
                      \/ StartsWith(lower_name, "lrg"))
               THEN Strip(StripLeadingAdj(name, <<"big", "large", "lrg">>, FALSE))
               ELSE name,
               unit_norm)

\* lines 563 to 565: a leading "bag" becomes the unit
TakeLeadingBag(name, unit_norm, bag_match) ==
  StripBagAdjective(Lower(name),
                    IF bag_match # <<>> THEN Strip(bag_match[1]) ELSE name,
                    IF bag_match # <<>> THEN Some("bag") ELSE unit_norm)

\* lines 560 to 562: without unit, the name is matched against the leading bag
GuessLeadingBag(name, unit_norm) ==
  TakeLeadingBag(name, unit_norm, IF unit_norm = None THEN LeadingBag(name) ELSE <<>>)

\* lines 555 to 558: a trailing unit word becomes the unit
TakeTrailingUnit(name, unit_norm, trailing_unit) ==
  GuessLeadingBag(IF trailing_unit # <<>> THEN Strip(trailing_unit[1]) ELSE name,
                  IF trailing_unit # <<>>
                  THEN Some(GetOr(ITEM_UNIT_MAP, trailing_unit[2], trailing_unit[2]))
                  ELSE unit_norm)

\* lines 553 and 554: without unit, the name is matched against a trailing unit
GuessTrailingUnit(name, unit_norm) ==
  TakeTrailingUnit(name, unit_norm,
                   IF unit_norm = None THEN TrailingUnit(name) ELSE <<>>)

\* the name and the unit of a matched candidate after the clean-up steps of
\* parse_items (lines 550 to 578): <<name, unit>>
CleanNameAndUnit(rawName, unit0) ==
  GuessTrailingUnit(Strip(SubAll("cooler", "", Strip(StripTrailingNote(rawName)), 1)), unit0)

\* a faulty variant: the length of the name is counted, not its letters
HasEnoughCharacters(name) == ~(Len(name) < 3)

\* the name passes the check of lines 579 to 581: alpha_len is not under 3
HasEnoughLetters(name) == ~(AlphaLen(name) < 3)

\* a faulty variant: the ceiling of the quantities without unit is left out
WithinUpperCeiling(qty, unit) == ~(qty > 50000)

\* lines 584 to 587: a quantity (in hundredths) over 500 is dropped, and one
\* over 150 when there is no unit
WithinCeilings(qty, unit) == ~(qty > 50000) /\ ~(qty > 15000 /\ unit = None)

\* whether parse_items keeps a cleaned candidate (lines 579 to 599)
KeepsItem(name, qty, unit, subcategory) ==
  /\ HasEnoughLetters(name)
  /\ ~(Contains(name, "<@") \/ Contains(Lower(name), "http"))
  /\ WithinCeilings(qty, unit)
  /\ ~AnyIn(Lower(name), BlockedTokens)
  /\ ~(unit = None /\ \E i \in 1..Len(name) :
          /\ (WordAt(name, "am", i) \/ WordAt(name, "pm", i))
          /\ BoundaryAt(name, i) /\ BoundaryAt(name, i + 2))
  /\ ~Contains(name, "!")
  /\ ~(unit = None /\ subcategory = "" /\ WordCount(name) <= 1 /\ qty <= 200)
  /\ ~(unit = None /\ subcategory = "")

\* lines 579 to 601: the item of a cleaned candidate, <<>> when it is dropped
ItemIfKept(cfg, qty, name, unit, subcategory) ==
  IF ~KeepsItem(name, qty, unit, subcategory) THEN <<>>
  ELSE << [name |-> name, quantity |-> Some(qty), unit |-> unit,
           estimated_lbs |-> estimate_weight(cfg, Some(qty), unit, name),
           subcategory |-> subcategory] >>

ItemOfCleaned(cfg, qty, cleaned) ==
  ItemIfKept(cfg, qty, cleaned[1], cleaned[2], categorize_item(cleaned[1]))

\* lines 547 to 549: a candidate without name is dropped
ItemOfCandidate(cfg, qty, unit0, name0) ==
  IF name0 = "" THEN <<>> ELSE ItemOfCleaned(cfg, qty, CleanNameAndUnit(name0, unit0))

\* lines 537 to 547: the quantity, the unit and the name of a match
ItemOfMatch(cfg, match) ==
  IF match = <<>> THEN <<>>
  ELSE ItemOfCandidate(cfg, QtyValue(match[1]),
                       NormalizeUnit(Strip(Lower(match[2]))),
                       Strip(StripSet(match[3], {" ", ".", ";", "-"})))

\* re.sub(r"^[^0-9~]*", "", segment).strip()
FromFirstDigit(segment) ==
  Strip(DropFirst(segment, SpanLen(segment, CharsOf(segment) \ (DigitSet \cup {"~"}))))

\* lower.startswith(("http", "<http", "https")) or "google.com/maps" in lower,
\* or "<@" in segment
SkipsSegment(segment, lower) ==
  \/ StartsWith(lower, "http") \/ StartsWith(lower, "<http")
  \/ Contains(lower, "google.com/maps")
  \/ Contains(segment, "<@")

\* one iteration of the loop of parse_items: <<item>> or <<>>
ParseSegment(cfg, segment0) ==
  IF SkipsSegment(segment0, Lower(segment0)) \/ FromFirstDigit(segment0) = "" THEN <<>>
  ELSE ItemOfMatch(cfg, ItemPatternMatch(FromFirstDigit(segment0)))

RECURSIVE ParseSegments(_, _)
ParseSegments(cfg, segments) ==
  IF segments = <<>> THEN <<>>
  ELSE ParseSegment(cfg, Head(segments)) \o ParseSegments(cfg, Tail(segments))

\* parse_items under the weight configuration cfg (the global WEIGHT_CONFIG)
parse_items(cfg, text) ==
  ParseSegments(cfg, split_item_segments(numberize_words(normalize_text(text))))

(***************************************************************************)
(* Location Extractor (extract_slack_regex.py).  A pattern made of words   *)
(* separated by \s+ is the sequence of its words; re.IGNORECASE is         *)
(* matching against the lower-cased text, whose positions are those of     *)
(* the text.                                                               *)
(***************************************************************************)
\* the position after words[1]\s+words[2]... matched at i in lower, 0 if no match
RECURSIVE PhraseEnd(_, _, _)
PhraseEnd(lower, words, i) ==
  IF ~OccursAt(lower, Head(words), i) THEN 0
  ELSE LET e == i + Len(Head(words))
           f == SkipSpaces(lower, e)
       IN IF Len(words) = 1 THEN e
          ELSE IF f = e THEN 0
          ELSE PhraseEnd(lower, Tail(words), f)

\* \s+(.+) matched at e: the start of the group, 0 if no match.  The group
\* starts after the whitespace run, or, when the run ends the text, at its
\* last character that is not a newline (the run gives it back).
GroupStart(s, e) ==
  LET f == SkipSpaces(s, e)
      back == {j \in (e + 1)..Len(s) : Ch(s, j) # "\n"}
  IN IF f = e THEN 0
     ELSE IF f <= Len(s) THEN f
     ELSE IF back # {} THEN CHOOSE j \in back : \A k \in back : k <= j
     ELSE 0

\* re.search(r"(?:phrase|phrase|...)\s+(.+)", text, IGNORECASE).group(1):
\* <<group>> of the leftmost match, <<>> when there is none
SearchPhrases(text, phrases) ==
  LET lower == Lower(text)
      ends(i) == {PhraseEnd(lower, phrases[k], i) : k \in 1..Len(phrases)} \ {0}
      hits == {i \in 1..Len(text) : \E e \in ends(i) : GroupStart(text, e) > 0}
  IN IF hits = {} THEN <<>>
     ELSE LET i == CHOOSE i \in hits : \A j \in hits : i <= j
              e == CHOOSE e \in ends(i) : GroupStart(text, e) > 0
              rest == DropFirst(text, GroupStart(text, e) - 1)
          IN <<BeforeFirst(rest, "\n")>>

\* re.sub(r"[;,.]+$", "", value), then whitespace collapsed and stripped
clean_location(value) == Strip(CollapseSpaces(RStripSet(value, {";", ",", "."})))

\* remainder[: dash.start()] for dash = re.search(r"\s[-]\s", remainder)
CutAtDash(remainder) ==
  LET dashes == {i \in 1..(Len(remainder) - 2) :
                   /\ Ch(remainder, i) \in SpaceSet
                   /\ Ch(remainder, i + 1) = "-"
                   /\ Ch(remainder, i + 2) \in SpaceSet}
  IN IF dashes = {} THEN remainder
     ELSE TakeFirst(remainder, (CHOOSE i \in dashes : \A j \in dashes : i <= j) - 1)

\* re.sub(r"\s+in\s+\w+$", "", remainder, IGNORECASE)
StripInSuffix(remainder) ==
  LET starts == {i \in 1..Len(remainder) :
                   LET a == SkipSpaces(remainder, i)
                       b == SkipSpaces(remainder, a + 2)
                   IN /\ a > i /\ WordAt(remainder, "in", a) /\ b > a + 2
                      /\ b <= Len(remainder)
                      /\ AllIn(DropFirst(remainder, b - 1), WordSet)}
  IN IF starts = {} THEN remainder
     ELSE TakeFirst(remainder, (CHOOSE i \in starts : \A j \in starts : i <= j) - 1)

DropFromPhrases ==
  << <<"dropped", "off", "from">>, <<"dropped", "from">>, <<"drop", "off", "from">> >>

RescuePhrases ==
  << <<"picked", "up", "some", "produce", "from">>, <<"picked", "up", "some", "from">>,
     <<"picked", "up", "produce", "from">>, <<"picked", "up", "from">>,
     <<"rescued", "from">>, <<"rescue", "from">>, <<"pickup", "from">>,
     <<"pickuped", "from">>, <<"earlier", "today", "from">>, <<"today", "from">>,
     <<"scooped", "this", "from">>, <<"scooped", "from">> >>

\* the characters of the class [A-Za-z0-9 &'-]
NameClass == AlnumSet \cup {" ", "&", "'", "-"}

\* \s+([A-Z][A-Za-z0-9 &'-]{2,}) matched at e, the first character taken from
\* `initials`: <<group>> or <<>>
NameGroupAt(text, e, initials) ==
  LET f == SkipSpaces(text, e)
      n == SpanLen(DropFirst(text, f), NameClass)
  IN IF f > e /\ f <= Len(text) /\ Ch(text, f) \in initials /\ n >= 2
     THEN <<SubSeq(text, f, f + n)>>
     ELSE <<>>

extract_rescue_location(text) ==
  LET drop_match == SearchPhrases(text, DropFromPhrases)
      match == SearchPhrases(text, RescuePhrases)
      simple_from == IF StartsWith(text, "from") \/ StartsWith(text, "From")
                     THEN NameGroupAt(text, 5, UpperSet) ELSE <<>>
  IN IF drop_match # <<>>
     THEN clean_location(CutAtDash(BeforeFirst(drop_match[1], ":")))
     ELSE IF match # <<>>
     THEN clean_location(CutAtDash(BeforeFirst(StripInSuffix(match[1]), ":")))
     ELSE IF simple_from # <<>> THEN clean_location(simple_from[1])
     ELSE ""

\* the patterns 1 to 4 of extract_dropoff_location, their alternations expanded
DropoffPhrases ==
  << << <<"dropped", "off", "at">>, <<"dropped", "off", "to">>,
        <<"dropped", "off", "surplus", "at">>, <<"dropped", "at">>, <<"dropped", "to">>,
        <<"dropped", "surplus", "at">> >>,
     << <<"delivered", "to">>, <<"delivered", "at">>, <<"deliver", "to">>,
        <<"deliver", "at">>, <<"delivering", "to">>, <<"delivering", "at">> >>,
     << <<"brought", "to">>, <<"brought", "at">>, <<"bringing", "to">>,
        <<"bringing", "at">>, <<"took", "to">>, <<"took", "at">>, <<"taking", "to">>,
        <<"taking", "at">>, <<"sent", "to">>, <<"sent", "at">>, <<"sending", "to">>,
        <<"sending", "at">> >>,
     << <<"taken", "to">>, <<"going", "to">> >> >>

\* pattern 5, \bfor\s+([A-Z][A-Za-z0-9 &'-]{2,}), and pattern 7,
\* (?:claimed|labeled)\s+for\s+([A-Z][A-Za-z0-9 &'-]{2,}), both IGNORECASE:
\* <<group>> of the leftmost match, <<>> when there is none
SearchForName(text, claimed) ==
  LET lower == Lower(text)
      after(i) == IF claimed
                  THEN Max(PhraseEnd(lower, <<"claimed", "for">>, i),
                           PhraseEnd(lower, <<"labeled", "for">>, i))
                  ELSE IF OccursAt(lower, "for", i) /\ BoundaryAt(text, i) THEN i + 3 ELSE 0
      hits == {i \in 1..Len(text) : after(i) > 0 /\ NameGroupAt(text, after(i), AlphaSet) # <<>>}
  IN IF hits = {} THEN <<>>
     ELSE NameGroupAt(text, after(CHOOSE i \in hits : \A j \in hits : i <= j), AlphaSet)

\* pattern 6, ^([A-Za-z0-9 &'-]{2,})\s+(?:took|grabbed|picked\s+up)\b : the
\* longest such start of the text, <<>> when there is none
LeadingActor(text) ==
  LET lower == Lower(text)
      verbAt(v) == \E e \in {PhraseEnd(lower, <<"took">>, v), PhraseEnd(lower, <<"grabbed">>, v),
                             PhraseEnd(lower, <<"picked", "up">>, v)} :
                     e > 0 /\ BoundaryAt(text, e)
      ends == {g \in 2..SpanLen(text, NameClass) :
                 /\ g < Len(text) /\ Ch(text, g + 1) \in SpaceSet
                 /\ verbAt(SkipSpaces(text, g + 1))}
  IN IF ends = {} THEN <<>>
     ELSE <<TakeFirst(text, CHOOSE g \in ends : \A h \in ends : h <= g)>>

\* re.sub(r"\s+and\s+.*$", "", remainder)
CutAtAnd(remainder) ==
  LET starts == {i \in 1..Len(remainder) :
                   LET a == SkipSpaces(remainder, i)
                   IN a > i /\ OccursAt(remainder, "and", a)
                      /\ SkipSpaces(remainder, a + 3) > a + 3}
  IN IF starts = {} THEN remainder
     ELSE TakeFirst(remainder, (CHOOSE i \in starts : \A j \in starts : i <= j) - 1)

extract_dropoff_location(text) ==
  LET m1 == SearchPhrases(text, DropoffPhrases[1])
      m2 == SearchPhrases(text, DropoffPhrases[2])
      m3 == SearchPhrases(text, DropoffPhrases[3])
      m4 == SearchPhrases(text, DropoffPhrases[4])
      m5 == SearchForName(text, FALSE)
      m6 == LeadingActor(text)
      m7 == SearchForName(text, TRUE)
      match == IF m1 # <<>> THEN m1 ELSE IF m2 # <<>> THEN m2 ELSE IF m3 # <<>> THEN m3
               ELSE IF m4 # <<>> THEN m4 ELSE IF m5 # <<>> THEN m5
               ELSE IF m6 # <<>> THEN m6 ELSE m7
      lower == Lower(text)
  IN IF match # <<>>
     THEN clean_location(CutAtAnd(
            BeforeFirst(BeforeFirst(BeforeFirst(match[1], "\n"), ";"), ",")))
     ELSE IF Contains(lower, "taken to") /\ Contains(lower, "fridge") THEN "Love Fridge"
     ELSE ""

(***************************************************************************)
(* Section Segmenter (extract_slack_regex.py).                             *)
(***************************************************************************)
\* heading_re, ^([A-Za-z0-9 /&'.-]+):\s*$ : <<group 1>>, <<>> when no match
HeadingOf(line) ==
  LET n == SpanLen(line, NameClass \cup {"/", "."})
  IN IF n >= 1 /\ OccursAt(line, ":", n + 1) /\ AllIn(DropFirst(line, n + 1), SpaceSet)
     THEN <<TakeFirst(line, n)>>
     ELSE <<>>

\* the loop over the lines and the final flush: the (location, chunk) pairs
RECURSIVE CollectSections(_, _, _, _)
CollectSections(lines, sections, current_loc, buffer) ==
  LET flushed == IF current_loc # "" /\ buffer # <<>>
                 THEN Append(sections, <<current_loc, Join(buffer, "\n")>>)
                 ELSE sections
  IN IF lines = <<>> THEN flushed
     ELSE LET heading == HeadingOf(Head(lines))
          IN IF heading # <<>>
             THEN CollectSections(Tail(lines), flushed, Strip(heading[1]), <<>>)
             ELSE CollectSections(Tail(lines), sections, current_loc,
                                  IF current_loc # "" THEN Append(buffer, Head(lines))
                                  ELSE buffer)

\* a faulty variant: a section for every labelled chunk
SectionOfAnyItems(location, chunk_items) ==
  << [location |-> clean_location(location), items |-> chunk_items] >>

\* a section, when its chunk parsed to at least one item
SectionOfItems(location, chunk_items) ==
  IF chunk_items = <<>> THEN <<>>
  ELSE << [location |-> clean_location(location), items |-> chunk_items] >>

\* the sections that parse to at least one item
RECURSIVE ParsedSections(_, _)
ParsedSections(cfg, sections) ==
  IF sections = <<>> THEN <<>>
  ELSE SectionOfItems(Head(sections)[1], parse_items(cfg, Head(sections)[2]))
       \o ParsedSections(cfg, Tail(sections))

parse_sections(cfg, text) ==
  ParsedSections(cfg, CollectSections(Split(normalize_text(text), "\n"), <<>>, "", <<>>))

(***************************************************************************)
(* Location Canonicalizer: canonical_loc of the review service             *)
(* (slack_api.py) and canonicalize_location of the exporter                *)
(* (export_slack_audited.py).  An alias table is the sequence of its       *)
(* <<key, canonical name>> pairs in iteration order.                       *)
(***************************************************************************)
\* re.sub(r"[^a-z0-9 ]+", " ", value.lower()).strip(), whitespace collapsed
NormalizeKey(value) ==
  CollapseSpaces(Strip(Concat(
    [i \in 1..Len(value) |->
       IF LowerCh(Ch(value, i)) \in LowerSet \cup DigitSet \cup {" "} THEN LowerCh(Ch(value, i))
       ELSE IF i = 1 \/ LowerCh(Ch(value, i - 1)) \in LowerSet \cup DigitSet \cup {" "} THEN " "
       ELSE ""])))

\* _normalize_loc of the service
normalize_loc(value) == NormalizeKey(value)
\* normalize_location_key of the exporter
normalize_location_key(value) == NormalizeKey(value)

DEFAULT_LOCATION_ALIASES ==
  << <<"aldi wp", "Aldi Wicker Park">>, <<"aldi wicker park", "Aldi Wicker Park">>,
     <<"wicker park aldi", "Aldi Wicker Park">>, <<"aldi n milwaukee", "Aldi Wicker Park">>,
     <<"aldi n milwaukee ave", "Aldi Wicker Park">>, <<"aldis wp", "Aldi Wicker Park">>,
     <<"aldis wicker park", "Aldi Wicker Park">>, <<"aldi hodgkins", "Aldi Hodgkins">>,
     <<"aldi lyons", "Aldi Lyons">>, <<"aldi cicero", "Aldi Cicero">>,
     <<"aldi englewood", "Aldi Englewood">>, <<"uc", "UC">>,
     <<"love fridge", "Love Fridge">>, <<"love fridges", "Love Fridge">>,
     <<"na4j", "NA4J">>, <<"lsrsn", "LSRSN">>, <<"ls rsn", "LSRSN">>,
     <<"marianos", "Mariano's">>, <<"mariano's", "Mariano's">>,
     <<"sl mariano's", "Mariano's South Loop">>, <<"marianos sl", "Mariano's South Loop">>,
     <<"mariano's sl", "Mariano's South Loop">>,
     <<"marianos south loop", "Mariano's South Loop">>,
     <<"south loop marianos", "Mariano's South Loop">>,
     <<"south loop mariano's", "Mariano's South Loop">> >>

\* d[k] = v: the value of a key that is there is replaced in place, a new key
\* goes last
DictSet(d, k, v) ==
  IF HasKey(d, k) THEN [i \in 1..Len(d) |-> IF d[i][1] = k THEN <<k, v>> ELSE d[i]]
  ELSE Append(d, <<k, v>>)

\* the keys of the names (aliases[k], ...) registered for canon, one after the other
RECURSIVE RegisterAliases(_, _, _, _)
RegisterAliases(table, canon, aliases, k) ==
  IF k > Len(aliases) THEN table
  ELSE RegisterAliases(IF NormalizeKey(aliases[k]) # ""
                       THEN DictSet(table, NormalizeKey(aliases[k]), canon) ELSE table,
                       canon, aliases, k + 1)

\* the loop of load_alias_map and of load_location_aliases over the entries
\* <<canonical, aliases>> of the aliases file: the canonical name, stripped,
\* is registered under its own key, then under the key of each alias
RECURSIVE LoadEntries(_, _, _)
LoadEntries(table, data, k) ==
  IF k > Len(data) THEN table
  ELSE LoadEntries(IF Strip(data[k][1]) = "" THEN table
                   ELSE RegisterAliases(table, Strip(data[k][1]),
                                        <<Strip(data[k][1])>> \o data[k][2], 1),
                   data, k + 1)

\* load_alias_map: the table of the service; file = <<>> when there is no
\* aliases file, <<data>> when it holds data
load_alias_map(file) ==
  IF file = <<>> THEN DEFAULT_LOCATION_ALIASES ELSE LoadEntries(<<>>, file[1], 1)

\* load_location_aliases: the table of the exporter
load_location_aliases(file) ==
  IF file = <<>> THEN <<>> ELSE LoadEntries(<<>>, file[1], 1)

\* [A-Za-z0-9 /&'.-], the characters of the words before a lead-in
LeadClass == AlnumSet \cup {" ", "/", "&", "'", ".", "-"}

\* the lead-in patterns, in order; each is the list of the word sequences it
\* can match after "^[...]+\s+" and before "\s+(.+)$".  The first pattern
\* without its optional words, picked\s+up\s+\s+at, is "picked up" and "at"
\* two whitespace characters apart or more: the entry <<"picked", "up", "", "at">>.
LeadPatterns ==
  << << <<"picked", "up", "this", "morning", "at">>, <<"picked", "up", "earlier", "today", "at">>,
        <<"picked", "up", "today", "at">>, <<"picked", "up", "", "at">> >>,
     << <<"picked", "up", "at">> >>,
     << <<"picked", "up", "from">> >>,
     << <<"took", "directly", "from">>, <<"took", "from">> >> >>

\* "picked up" ended at e and whitespace ended at f: "at" must stand at f, two
\* whitespace characters or more after e
LeadGapEnd(lower, e, f) ==
  IF e > 0 /\ f >= e + 2 /\ OccursAt(lower, "at", f) THEN f + 2 ELSE 0

\* the position after the words matched at q in lower, 0 if they do not match
LeadWordsEnd(lower, words, q) ==
  IF Len(words) = 4 /\ words[3] = ""
  THEN LeadGapEnd(lower, PhraseEnd(lower, <<"picked", "up">>, q),
                  SkipSpaces(lower, PhraseEnd(lower, <<"picked", "up">>, q)))
  ELSE PhraseEnd(lower, words, q)

\* the words stand at q after whitespace that starts at w, they end at e and
\* the whitespace after them ends at f
LeadGroupAt(cleaned, q, w, e, f) ==
  IF /\ w < q /\ q >= 3
     /\ AllIn(TakeFirst(cleaned, IF w >= 3 THEN w - 1 ELSE 1), LeadClass)
     /\ e > 0 /\ f > e /\ f <= Len(cleaned)
     /\ ~Contains(DropFirst(cleaned, f - 1), "\n")
  THEN f ELSE 0

LeadGroupFrom(cleaned, q, w, e) == LeadGroupAt(cleaned, q, w, e, SkipSpaces(cleaned, e))

\* where group 1 starts when the words match at q and the whole pattern
\* matches: the words stand after whitespace that follows at least one
\* character, all before them but that whitespace is of the class, and a
\* rest without newline follows them after whitespace; 0 otherwise
LeadGroupStart(cleaned, lower, words, q) ==
  LeadGroupFrom(cleaned, q, q - RSpanLen(TakeFirst(cleaned, q - 1), SpaceSet),
                LeadWordsEnd(lower, words, q))

\* the matches <<q, start of group 1>> of the word sequences pats in cleaned
LeadHits(cleaned, lower, pats) ==
  {h \in {<<q, LeadGroupStart(cleaned, lower, pats[v], q)>> :
            q \in 1..Len(cleaned), v \in 1..Len(pats)} : h[2] > 0}

\* the prefix is greedy, so the match is the one whose words stand last
LastLeadGroup(cleaned, hits) ==
  IF hits = {} THEN <<>>
  ELSE <<DropFirst(cleaned, (CHOOSE h \in hits : \A g \in hits : g[1] <= h[1])[2] - 1)>>

\* re.match(pattern k, cleaned, IGNORECASE).group(1); <<>> when there is no match
LeadMatch(cleaned, k) ==
  LastLeadGroup(cleaned, LeadHits(cleaned, Lower(cleaned), LeadPatterns[k]))

FirstMatchOf(m1, m2, m3, m4) ==
  IF m1 # <<>> THEN m1 ELSE IF m2 # <<>> THEN m2 ELSE IF m3 # <<>> THEN m3 ELSE m4

\* the group of the first lead-in pattern that matches, <<>> when none does
FirstLeadMatch(cleaned) ==
  FirstMatchOf(LeadMatch(cleaned, 1), LeadMatch(cleaned, 2), LeadMatch(cleaned, 3),
               LeadMatch(cleaned, 4))

\* before, after = cleaned.rsplit(" at ", 1) raises ValueError when the only
\* " at " of the text is not in lower case
MarianoSplitRaises(cleaned) ==
  /\ Contains(Lower(cleaned), " mariano")
  /\ Contains(Lower(cleaned), " at ")
  /\ ~Contains(cleaned, " at ")

\* with " mariano" and " at " in the text, what follows the last " at " is kept
KeepAfterAt(cleaned) ==
  IF Contains(Lower(cleaned), " mariano") /\ Contains(Lower(cleaned), " at ")
     /\ Strip(DropFirst(cleaned, RFind(cleaned, " at ") + 3)) # ""
  THEN StripSet(DropFirst(cleaned, RFind(cleaned, " at ") + 3), {" ", ":", "-"})
  ELSE cleaned

\* re.sub(r"^\s*from\s+", "", s, IGNORECASE)
StripLeadingFrom(s) ==
  IF WordAt(s, "from", SkipSpaces(s, 1))
     /\ SkipSpaces(s, SkipSpaces(s, 1) + 4) > SkipSpaces(s, 1) + 4
  THEN DropFirst(s, SkipSpaces(s, SkipSpaces(s, 1) + 4) - 1)
  ELSE s

PunctRunStripped(s, t, u) == IF u = t THEN s ELSE RStripSet(u, SpaceSet)

PunctRunOf(s, t) == PunctRunStripped(s, t, RStripSet(t, {":", ";", ",", "-"}))

\* re.sub(r"\s*[:;,-]+\s*$", "", s): the last run of these characters, with
\* the whitespace around it, when only whitespace follows it
StripTrailingPunct(s) == PunctRunOf(s, RStripSet(s, SpaceSet))

TookStripped(s, t) ==
  IF WordAt(t, "took", Len(t) - 3) /\ ~IsWordAt(t, Len(t) - 4)
  THEN TakeFirst(t, Len(t) - 4) ELSE s

\* re.sub(r"\btook\b\s*$", "", s, IGNORECASE)
StripTrailingTook(s) == TookStripped(s, RStripSet(s, SpaceSet))

\* the trimming steps the two canonicalizers share, from the "from" prefix to
\* the final strip
TrimLocation(cleaned) ==
  Strip(StripTrailingTook(StripTrailingPunct(
    BeforeFirst(BeforeFirst(StripLeadingFrom(cleaned), "\n"), "("))))

\* the canonical names of the alias keys that occur in key, in table order
SubstringHits(aliases, key) ==
  {i \in 1..Len(aliases) : aliases[i][1] # "" /\ key # "" /\ Contains(key, aliases[i][1])}

\* the canonical name of the last of the hits, the fallback when there is none
LastHit(aliases, hits, fallback) ==
  IF hits # {} THEN aliases[CHOOSE i \in hits : \A j \in hits : j <= i][2] ELSE fallback

\* the canonical name of the first of the hits, the fallback when there is none
FirstHit(aliases, hits, fallback) ==
  IF hits # {} THEN aliases[CHOOSE i \in hits : \A j \in hits : i <= j][2] ELSE fallback

\* a faulty variant: the last alias key that occurs in the key decides
LookupLast(aliases, key, fallback) ==
  IF HasKey(aliases, key) THEN GetOr(aliases, key, fallback)
  ELSE LastHit(aliases, SubstringHits(aliases, key), fallback)

\* the exact key, or else the first alias key that occurs in the key, or
\* else the fallback
Lookup(aliases, key, fallback) ==
  IF HasKey(aliases, key) THEN GetOr(aliases, key, fallback)
  ELSE FirstHit(aliases, SubstringHits(aliases, key), fallback)

\* the group of the lead-in, stripped of " :-", or the text when none matched
LeadInCut(cleaned, m) == IF m # <<>> THEN StripSet(m[1], {" ", ":", "-"}) ELSE cleaned

CleanedOfStripped(cleaned) == TrimLocation(KeepAfterAt(LeadInCut(cleaned, FirstLeadMatch(cleaned))))

\* the text canonical_loc looks up: the lead-in stripped, the Mariano rule, the trimming
CleanedLoc(value) == CleanedOfStripped(Strip(value))

\* canonical_loc, with LOCATION_ALIASES = aliases
canonical_loc(value, aliases) ==
  IF value = "" THEN ""
  ELSE Lookup(aliases, normalize_loc(CleanedLoc(value)), "")

\* string_or_none(value) or ""
string_or_empty(value) == IF value = None THEN "" ELSE Strip(value[1])

LeadInStripped(cleaned, m) ==
  IF m # <<>> THEN Strip(LStripSet(Strip(m[1]), {"-", ":"})) ELSE cleaned

StripLeadInsOf(cleaned) == LeadInStripped(cleaned, FirstLeadMatch(cleaned))

\* strip_location_lead_ins
strip_location_lead_ins(value) == StripLeadInsOf(string_or_empty(value))

\* the look-up of canonicalize_location with the key of the trimmed text
CanonicalOfKey(trimmed, key, alias_lookup) ==
  IF alias_lookup # <<>> /\ key # "" THEN Some(Lookup(alias_lookup, key, trimmed))
  ELSE Some(trimmed)

\* the rest of canonicalize_location once the text is trimmed
CanonicalOfTrimmed(trimmed, alias_lookup) ==
  IF trimmed = "" THEN None
  ELSE CanonicalOfKey(trimmed, normalize_location_key(trimmed), alias_lookup)

CanonicalOfStripped(cleaned, alias_lookup) ==
  IF cleaned = "" THEN None
  ELSE CanonicalOfTrimmed(TrimLocation(KeepAfterAt(cleaned)), alias_lookup)

\* canonicalize_location: None or <<name>>
canonicalize_location(value, alias_lookup) ==
  CanonicalOfStripped(strip_location_lead_ins(value), alias_lookup)

(***************************************************************************)
(* Pipeline Orchestrator (main of extract_slack_regex.py).                 *)
(***************************************************************************)
\* a faulty variant: the items of the sections, last section first
RECURSIVE FlatItemsLastFirst(_)
FlatItemsLastFirst(sections) ==
  IF sections = <<>> THEN <<>>
  ELSE FlatItemsLastFirst(Tail(sections)) \o Head(sections).items

\* flat_items: the items of the sections, in order
RECURSIVE FlatItems(_)
FlatItems(sections) ==
  IF sections = <<>> THEN <<>> ELSE Head(sections).items \o FlatItems(Tail(sections))

\* a faulty variant: the end_ts the session was opened with
EndTsOfOpening(group) == group.end_ts

\* group["timestamps"][-1] if group["timestamps"] else group["start_ts"]
EndTs(group) ==
  IF group.timestamps # <<>> THEN group.timestamps[Len(group.timestamps)]
  ELSE group.start_ts

\* a faulty variant: the drop-off section is appended whatever the locations
\* of the parsed sections
RecordSectionsWithDrop(parsed, rescue0, drop_loc, items) ==
  IF parsed # <<>>
  THEN IF drop_loc # ""
       THEN Append(parsed, [location |-> drop_loc, items |-> items])
       ELSE parsed
  ELSE IF rescue0 # "" \/ drop_loc # ""
       THEN << [location |-> IF rescue0 # "" THEN rescue0 ELSE drop_loc,
                items |-> items] >>
       ELSE <<>>

\* a faulty variant: a text without section gets a section only for a rescue
\* location
RecordSectionsOfRescue(parsed, rescue0, drop_loc, items) ==
  IF parsed # <<>>
  THEN IF drop_loc # "" /\ ~\E k \in 1..Len(parsed) : parsed[k].location = drop_loc
       THEN Append(parsed, [location |-> drop_loc, items |-> items])
       ELSE parsed
  ELSE IF rescue0 # ""
       THEN << [location |-> rescue0, items |-> items] >>
       ELSE <<>>

\* lines 699 to 705 and 717 to 721: the sections of the record
RecordSections(parsed, rescue0, drop_loc, items) ==
  IF parsed # <<>>
  THEN IF drop_loc # "" /\ ~\E k \in 1..Len(parsed) : parsed[k].location = drop_loc
       THEN Append(parsed, [location |-> drop_loc, items |-> items])
       ELSE parsed
  ELSE IF rescue0 # "" \/ drop_loc # ""
       THEN << [location |-> IF rescue0 # "" THEN rescue0 ELSE drop_loc,
                items |-> items] >>
       ELSE <<>>

\* a faulty variant: the first section gives the rescue location whenever
\* there is a section
RecordRescueOfSection(parsed, rescue0) ==
  IF parsed # <<>> /\ parsed[1].location # "" THEN parsed[1].location ELSE rescue0

\* lines 700 and 701: the rescue location, from the first section when the
\* extractor found none
RecordRescue(parsed, rescue0) ==
  IF parsed # <<>> /\ rescue0 = "" /\ parsed[1].location # ""
  THEN parsed[1].location ELSE rescue0

\* lines 723 to 736: the record
RecordOfItems(idx, group, direction, rescue0, drop_loc, parsed, items) ==
  [id |-> idx + 1, user |-> group.user, start_ts |-> group.start_ts,
   end_ts |-> EndTs(group), direction |-> direction,
   rescue_location |-> RecordRescue(parsed, rescue0), drop_off_location |-> drop_loc,
   items |-> items, sections |-> RecordSections(parsed, rescue0, drop_loc, items),
   raw_messages |-> group.messages]

\* a faulty variant: the items are those of the whole text, sections or not
RecordOfWholeText(cfg, idx, group, combined_text, rescue0, drop_loc, parsed) ==
  RecordOfItems(idx, group, detect_direction(combined_text, rescue0, drop_loc),
                rescue0, drop_loc, parsed, parse_items(cfg, combined_text))

\* lines 693 to 716: the direction, from the locations the extractors found,
\* and the items, from the sections or else from the whole text
RecordOfParts(cfg, idx, group, combined_text, rescue0, drop_loc, parsed) ==
  RecordOfItems(idx, group, detect_direction(combined_text, rescue0, drop_loc),
                rescue0, drop_loc, parsed,
                IF parsed # <<>> THEN FlatItems(parsed) ELSE parse_items(cfg, combined_text))

\* lines 691 to 694: the locations and the sections of the text of the group
RecordOfText(cfg, idx, group, combined_text) ==
  RecordOfParts(cfg, idx, group, combined_text,
                extract_rescue_location(combined_text),
                extract_dropoff_location(combined_text),
                parse_sections(cfg, combined_text))

\* the body of the loop over the groups: the record of group number idx + 1
BuildRecord(cfg, idx, group) == RecordOfText(cfg, idx, group, Join(group.messages, "\n"))

\* the weight configuration of the run: weight_config.json is not part of the
\* sources, and load_weight_config then returns the empty configuration
WEIGHT_CONFIG == EmptyWeightConfig

\* rows = read_xlsx_messages(...); groups = group_messages(rows, ...); main
\* catches no exception, so a TypeError of group_messages ends the run
GroupRows ==
  /\ pc = "start"
  /\ IF GroupingRaises(rows)
     THEN groups' = groups /\ pc' = "failed"
     ELSE groups' = group_messages(rows, window) /\ pc' = "grouped"
  /\ UNCHANGED <<rows, window, records, call, result, rescue_logs, slack_messages_audited, requests, registry, trainer>>

\* one iteration of `for idx, group in enumerate(groups)`
EmitRecord ==
  /\ pc = "grouped"
  /\ Len(records) < Len(groups)
  /\ records' = Append(records, BuildRecord(WEIGHT_CONFIG, Len(records), groups[Len(records) + 1]))
  /\ UNCHANGED <<rows, window, groups, pc, call, result, rescue_logs, slack_messages_audited, requests, registry, trainer>>

\* the loop is over: the records are written and summarized
WriteRecords ==
  /\ pc = "grouped"
  /\ Len(records) = Len(groups)
  /\ pc' = "written"
  /\ UNCHANGED <<rows, window, groups, records, call, result, rescue_logs, slack_messages_audited, requests, registry, trainer>>

CallIdle == call = <<>> /\ result = <<>>
MainIdle == rows = <<>> /\ window = 0 /\ groups = <<>> /\ records = <<>> /\ pc = "idle"

(***************************************************************************)
(* The run of main over an export: read, group, one record per group,      *)
(* write.  The default specification.                                      *)
(***************************************************************************)
\* --group-minutes, by default
DefaultGroupMinutes == 30

\* the longest export of a run
MaxMsgs == 3

\* the messages an export is made of: labelled sections, phrases that name a
\* pick-up or a drop-off place, bare item lines, and an event without text
SampleMessages ==
  { MessageRow("0", "U1", "Aldi:\n2 boxes apples", "message", ""),
    MessageRow("30", "U1", "dropped off at Love Fridge", "message", ""),
    MessageRow("61", "U1", "3 cases milk", "message", ""),
    MessageRow("0", "U2", "rescued from Jewel\n2 bags rice", "message", ""),
    MessageRow("30", "U2", "Love Fridge:\n1 crate milk\ndelivered to Love Fridge", "message", ""),
    MessageRow("61", "U2", "took to UC\n5 cans soup", "message", ""),
    MessageRow("0", "U1", "4 trays dessert\nUC:\n2 boxes apples\nrescued from Jewel", "message", ""),
    MessageRow("0", "U1", "  ", "message", "") }

Init ==
  /\ rows \in UNION { [1..n -> SampleMessages] : n \in 0..MaxMsgs }
  /\ window = DefaultGroupMinutes
  /\ groups = <<>>
  /\ records = <<>>
  /\ pc = "start"
  /\ CallIdle
  /\ TablesEmpty /\ NoRequests /\ TrainerIdle

Next == GroupRows \/ EmitRecord \/ WriteRecords

Spec == Init /\ [][Next]_vars

(***************************************************************************)
(* The run of main over an export of one message that tells a pick-up:     *)
(* "Picked up <items> and <items> from <Location>".                        *)
(***************************************************************************)
\* item phrases as written, with the quantity, the unit and the name they state
PickupItems ==
  { [phrase |-> "5 cases bananas", quantity |-> 500, unit |-> "case", name |-> "bananas"],
    [phrase |-> "3 boxes lettuce", quantity |-> 300, unit |-> "box", name |-> "lettuce"],
    [phrase |-> "2 bags rice", quantity |-> 200, unit |-> "bag", name |-> "rice"] }

PickupLocations == {"Aldi Wicker Park", "Jewel", "UC"}

\* the pick-ups told: the opening words, two item phrases and a location
PickupShapes ==
  [opening : {"Picked up", "picked up"}, first : PickupItems, second : PickupItems,
   location : PickupLocations]

PickupText(sh) ==
  sh.opening \o " " \o sh.first.phrase \o " and " \o sh.second.phrase \o " from " \o sh.location

InitPickup ==
  /\ \E sh \in PickupShapes : rows = <<MessageRow("0", "U1", PickupText(sh), "message", "")>>
  /\ window = DefaultGroupMinutes
  /\ groups = <<>>
  /\ records = <<>>
  /\ pc = "start"
  /\ CallIdle
  /\ TablesEmpty /\ NoRequests /\ TrainerIdle

NextPickup == GroupRows \/ EmitRecord \/ WriteRecords

SpecPickup == InitPickup /\ [][NextPickup]_vars

(***************************************************************************)
(* group_messages over exports with every order of timestamps.             *)
(***************************************************************************)
MaxRows == 3
MaxT == 2
MaxWindow == 1

Authors == {"U1", "U2"}
\* a timestamp of n minutes, as the export writes it
TsOf(n) == Ch(Digits, n + 1)
\* the text of the event at position i of the export
TextAt(i) == "m" \o Ch(Digits, i + 1)

\* what an event can be, but for its text: a message of an author with or
\* without a timestamp, a message with an unreadable timestamp or with a
\* timestamp in local time, a join or a
\* leave event, an event that is not a message, a message with blank text
EventShapes ==
  { [ts |-> t, user |-> u, text |-> "*", msg_type |-> "message", subtype |-> ""] :
      t \in {""} \cup {TsOf(n) : n \in 0..MaxT}, u \in Authors }
  \cup
  { [ts |-> "x", user |-> "U1", text |-> "*", msg_type |-> "message", subtype |-> ""],
    [ts |-> "0L", user |-> "U1", text |-> "*", msg_type |-> "message", subtype |-> ""],
    [ts |-> "1L", user |-> "U1", text |-> "*", msg_type |-> "message", subtype |-> ""],
    [ts |-> "0", user |-> "U1", text |-> "*", msg_type |-> "message", subtype |-> "channel_join"],
    [ts |-> "0", user |-> "U1", text |-> "*", msg_type |-> "message", subtype |-> "channel_leave"],
    [ts |-> "0", user |-> "U1", text |-> "*", msg_type |-> "file", subtype |-> ""],
    [ts |-> "0", user |-> "U1", text |-> " ", msg_type |-> "message", subtype |-> ""] }

RowOfShape(sh, i) ==
  MessageRow(sh.ts, sh.user, IF sh.text = "*" THEN TextAt(i) ELSE sh.text,
             sh.msg_type, sh.subtype)

InitGrouper ==
  /\ \E n \in 0..MaxRows : \E f \in [1..n -> EventShapes] :
       rows = [i \in 1..n |-> RowOfShape(f[i], i)]
  /\ window \in 0..MaxWindow
  /\ groups = <<>>
  /\ records = <<>>
  /\ pc = "start"
  /\ CallIdle
  /\ TablesEmpty /\ NoRequests /\ TrainerIdle

NextGrouper == GroupRows

SpecGrouper == InitGrouper /\ [][NextGrouper]_vars

(***************************************************************************)
(* detect_direction over texts with and without the phrases of the two     *)
(* vocabularies, with and without locations.                               *)
(***************************************************************************)
Range(seq) == {seq[k] : k \in 1..Len(seq)}

\* texts with at most one phrase of each vocabulary put in, and texts whose
\* letters are not in lower case
DirectionTexts ==
  {"we " \o a \o " and " \o b : a \in Range(InboundPhrases) \cup {""},
                                b \in Range(OutboundPhrases) \cup {""}}
  \cup {"Rescued From Aldi", "DELIVERED TO UC", "Picked up at Aldi, Took to LF", "Thanks all"}

InitDirection ==
  /\ call \in [fn : {"detect_direction"}, text : DirectionTexts,
               rescue_loc : {"", "Aldi"}, drop_loc : {"", "Love Fridge"}]
  /\ result = <<>>
  /\ pc = "call"
  /\ rows = <<>> /\ window = 0 /\ groups = <<>> /\ records = <<>>
  /\ TablesEmpty /\ NoRequests /\ TrainerIdle

DetectDirection ==
  /\ pc = "call"
  /\ call.fn = "detect_direction"
  /\ result = <<>>
  /\ result' = <<detect_direction(call.text, call.rescue_loc, call.drop_loc)>>
  /\ UNCHANGED <<rows, window, groups, records, pc, call, rescue_logs, slack_messages_audited, requests, registry, trainer>>

NextDirection == DetectDirection

SpecDirection == InitDirection /\ [][NextDirection]_vars

(***************************************************************************)
(* The two canonicalizers, applied to a location and then to their own     *)
(* result, with the table of the run: the built-in one when there is no    *)
(* aliases file, or the one loaded from the file.                          *)
(***************************************************************************)
\* an aliases file: canonical name -> aliases
AliasesFile ==
  << <<"Aldi Wicker Park", <<"aldi wp">> >>, <<"Love Fridge", <<"LF", "the love fridge">> >>,
     <<"UC", <<>> >> >>

LocationSamples ==
  {"", "aldi wp", "Aldi WP", "Aldi Wicker Park", "marianos", "Mariano's", "Trader Joes",
   "UC", "Love Fridge", "love fridge by uc", "SWC picked up this morning at Aldi WP",
   "NA4J took directly from Jewel", "from Aldi Lyons", "from from Jewel", "Jewel (Clark St)",
   "Aldi Cicero -", "LSRSN took", "Jewel, took", "SWC at Mariano's SL", "LF", " "}

InitCanon ==
  /\ \/ call \in [fn : {"canonical_loc"}, value : LocationSamples,
                  aliases : {load_alias_map(<<>>), load_alias_map(<<AliasesFile>>)}]
     \/ call \in [fn : {"canonicalize_location"},
                  value : {None} \cup {Some(v) : v \in LocationSamples},
                  aliases : {load_location_aliases(<<>>), load_location_aliases(<<AliasesFile>>)}]
  /\ result = <<>>
  /\ pc = "call"
  /\ rows = <<>> /\ window = 0 /\ groups = <<>> /\ records = <<>>
  /\ TablesEmpty /\ NoRequests /\ TrainerIdle

\* the canonicalizer of the call, applied to v
CanonApply(v) ==
  IF call.fn = "canonical_loc" THEN canonical_loc(v, call.aliases)
  ELSE canonicalize_location(v, call.aliases)

Canonicalize ==
  /\ pc = "call"
  /\ call.fn \in {"canonical_loc", "canonicalize_location"}
  /\ result = <<>>
  /\ result' = <<CanonApply(call.value)>>
  /\ UNCHANGED <<rows, window, groups, records, pc, call, rescue_logs, slack_messages_audited, requests, registry, trainer>>

\* the result is canonicalized again
Recanonicalize ==
  /\ pc = "call"
  /\ call.fn \in {"canonical_loc", "canonicalize_location"}
  /\ Len(result) = 1
  /\ result' = Append(result, CanonApply(result[1]))
  /\ UNCHANGED <<rows, window, groups, records, pc, call, rescue_logs, slack_messages_audited, requests, registry, trainer>>

NextCanon == Canonicalize \/ Recanonicalize

SpecCanon == InitCanon /\ [][NextCanon]_vars

(***************************************************************************)
(* estimate_weight over quantities, units, names and weight configurations *)
(* with rates of every sign.                                               *)
(***************************************************************************)
\* the largest rate of a configuration, in pounds, and the largest quantity
MaxRate == 2
MaxQty == 2

\* rates, in hundredths of a pound: negative, zero, positive, whole and not
Rates == {100 * r : r \in (0 - MaxRate)..MaxRate} \cup {-25, 25}

WeightConfigs ==
  {EmptyWeightConfig}
  \cup { << <<"base", << <<"default", r>> >> >> >> : r \in Rates }
  \cup { << <<"item_specific", << <<"apple", << <<"box", r>> >> >> >> >> >> : r \in Rates }
  \cup { << <<"base", << <<"produce_heavy", r>> >> >>,
            <<"food_weights", << <<"produce_heavy", <<"apple", "potato">> >> >> >> >> : r \in Rates }
  \cup { << <<"base", << <<"default", r>> >> >>,
            <<"unit_overrides", << <<"box", r>>, <<"shopping bag", r>> >> >> >> : r \in Rates }
  \cup { << <<"base", << <<"default", 300>>, <<"produce_heavy", 700>> >> >>,
            <<"food_weights", << <<"produce_heavy", <<"apple">> >> >> >>,
            <<"item_specific", << <<"stuff", << <<"widget", r>> >> >>,
                                  <<"apple", << <<"lb", r>>, <<"box", r>> >> >> >> >>,
            <<"unit_overrides", << <<"box", 2000>> >> >> >> : r \in Rates }
  \cup { << <<"base", << <<"default", r>>, <<"meat", 100>>, <<"dairy", 200>> >> >>,
            <<"food_weights", << <<"meat", <<"bread">> >>, <<"dairy", <<"bread", "stuff">> >>,
                                 <<"seafood", <<"apple">> >> >> >> >> : r \in Rates }

\* quantities, in hundredths
Quantities == {None} \cup {Some(q) : q \in {-100, 0, 50} \cup {100 * k : k \in 1..MaxQty}}

InitWeight ==
  /\ call \in [fn : {"estimate_weight"}, cfg : WeightConfigs, qty : Quantities,
               unit : {None, Some("box"), Some("lb"), Some("shopping bag"), Some("widget")},
               name : {"apples", "bread", "stuff"}]
  /\ result = <<>>
  /\ pc = "call"
  /\ rows = <<>> /\ window = 0 /\ groups = <<>> /\ records = <<>>
  /\ TablesEmpty /\ NoRequests /\ TrainerIdle

EstimateWeight ==
  /\ pc = "call"
  /\ call.fn = "estimate_weight"
  /\ result = <<>>
  /\ result' = <<estimate_weight(call.cfg, call.qty, call.unit, call.name)>>
  /\ UNCHANGED <<rows, window, groups, records, pc, call, rescue_logs, slack_messages_audited, requests, registry, trainer>>

NextWeight == EstimateWeight

SpecWeight == InitWeight /\ [][NextWeight]_vars

(***************************************************************************)
(* parse_items over item lines whose names are short, long, or shortened   *)
(* by the clean-up.                                                        *)
(***************************************************************************)
ItemNames ==
  {"ab", "a1", "tv", "tea", "eggs", "apples", "x-y", "brocolli", "OJ", "m&m",
   "ab (in the cooler)", "ox in the fridge", "big bags ab", "bags", "pb bags",
   "a b c", "...", "" }

ItemLines ==
  {q \o " " \o u \o n : q \in {"2", "12"},
                        u \in {"", "boxes ", "bags ", "lbs ", "cases of "},
                        n \in ItemNames}

\* lines with quantities around the two ceilings, with a unit, without one,
\* and with a unit that only the clean-up of the name recovers
LargeQuantityLines ==
  {q \o " " \o n : q \in {"150", "151", "200", "500", "501", "1000", "150.5"},
                    n \in {"apples", "boxes apples", "apples boxes", "bags rice",
                           "big bags rice", "lbs apples"}}

ItemTexts ==
  ItemLines
  \cup {"2 boxes ab\n3 cases apples", "2 boxes apples, 1 bag ab and 4 tv", "ten loaves ok"}
  \cup LargeQuantityLines

InitItems ==
  /\ call \in [fn : {"parse_items"}, text : ItemTexts]
  /\ result = <<>>
  /\ pc = "call"
  /\ rows = <<>> /\ window = 0 /\ groups = <<>> /\ records = <<>>
  /\ TablesEmpty /\ NoRequests /\ TrainerIdle

ParseItems ==
  /\ pc = "call"
  /\ call.fn = "parse_items"
  /\ result = <<>>
  /\ result' = <<parse_items(WEIGHT_CONFIG, call.text)>>
  /\ UNCHANGED <<rows, window, groups, records, pc, call, rescue_logs, slack_messages_audited, requests, registry, trainer>>

NextItems == ParseItems

SpecItems == InitItems /\ [][NextItems]_vars

(***************************************************************************)
(* The rescue log of the service (slack_api.py).  A JSON value is null     *)
(* (<<>>), a number <<"num", n>> (n in hundredths), a string <<"str", s>>, *)
(* a list <<"list", elements>> or an object <<"obj", fields>>, the fields  *)
(* a function from the keys that are there to their values.  The service   *)
(* is configured (USE_SUPABASE and supabase are set) and the store answers *)
(* every insert with the new row.                                          *)
(***************************************************************************)
JNull == <<>>
JNum(n) == <<"num", n>>
JStr(str) == <<"str", str>>
JList(elements) == <<"list", elements>>
JObj(fields) == <<"obj", fields>>

IsNum(v) == Len(v) = 2 /\ v[1] = "num"
IsStr(v) == Len(v) = 2 /\ v[1] = "str"
IsList(v) == Len(v) = 2 /\ v[1] = "list"
IsObj(v) == Len(v) = 2 /\ v[1] = "obj"

\* d.get(k) and d.get(k, default) of the object fields d
Get(d, k) == IF k \in DOMAIN d THEN d[k] ELSE JNull
GetDefault(d, k, default) == IF k \in DOMAIN d THEN d[k] ELSE default

\* the fields d with d[k] = v
WithField(d, k, v) == [x \in DOMAIN d \cup {k} |-> IF x = k THEN v ELSE d[x]]

\* bool(v)
Truthy(v) ==
  IF v = JNull THEN FALSE
  ELSE IF IsNum(v) THEN v[2] # 0
  ELSE IF IsObj(v) THEN DOMAIN v[2] # {}
  ELSE IF IsStr(v) THEN v[2] # ""
  ELSE Len(v[2]) > 0

\* whether a string is written as a whole number
IsWholeNumber(str) == str # "" /\ AllIn(str, DigitSet)

\* float(v): <<number>>, or <<>> when float raises ValueError or TypeError
\* (the strings of the requests are whole numbers or no numbers at all)
FloatOf(v) ==
  IF IsNum(v) THEN <<v[2]>>
  ELSE IF IsStr(v) /\ IsWholeNumber(Strip(v[2])) THEN <<100 * DigitsValue(Strip(v[2]))>>
  ELSE <<>>

\* str(v) for a string or null
StrOf(v) == IF v = JNull THEN "None" ELSE v[2]

\* n units of 1/d, rounded to the nearest whole, ties to even
RoundHalfEven(n, d) ==
  IF 2 * (n % d) < d THEN n \div d
  ELSE IF 2 * (n % d) > d THEN n \div d + 1
  ELSE IF (n \div d) % 2 = 0 THEN n \div d ELSE n \div d + 1

\* the weights per item of estimate_item_weight, in hundredths of a pound
ItemWeights ==
  << <<"apple", 33>>, <<"banana", 25>>, <<"orange", 30>>, <<"potato", 50>>, <<"onion", 30>>,
     <<"carrot", 10>>, <<"broccoli", 150>>, <<"cauliflower", 200>>, <<"lettuce", 100>>,
     <<"milk", 860>>, <<"bread", 150>>, <<"chicken", 300>>, <<"beef", 300>>, <<"pork", 300>>,
     <<"eggs", 150>> >>

\* the places in ItemWeights of the keys that occur in the name
ItemWeightHits(name) == {i \in 1..Len(ItemWeights) : Contains(name, ItemWeights[i][1])}

\* the first item weight that applies, times the quantity
FirstItemWeight(hits, qty) ==
  <<qty * ItemWeights[CHOOSE i \in hits : \A j \in hits : i <= j][2]>>

\* the rate per case or box, in hundredths of a pound
CaseRate(name, subcategory) ==
  IF Contains(name, "produce") \/ Contains(name, "fruit") \/ Contains(name, "vegetable")
     \/ subcategory = "produce" THEN 3000
  ELSE IF Contains(name, "meat") \/ Contains(name, "chicken") \/ Contains(name, "beef")
          \/ subcategory = "meat" THEN 4000
  ELSE IF Contains(name, "dairy") \/ subcategory = "dairy" THEN 3500
  ELSE IF Contains(name, "bread") \/ Contains(name, "baked") THEN 2000
  ELSE 2500

\* the rate per pallet
PalletRate(unit) ==
  IF Contains(unit, "full") THEN 80000 ELSE IF Contains(unit, "small") THEN 25000 ELSE 50000

\* the fallback by subcategory, for an item without unit or counted by the piece
SubcategoryWeight(qty, unit, subcategory) ==
  IF unit = "" \/ unit \in {"item", "items", "unit", "units"}
  THEN IF subcategory = "produce" THEN <<qty * 100>>
       ELSE IF subcategory = "meat" THEN <<qty * 200>>
       ELSE IF subcategory = "dairy" THEN <<qty * 200>>
       ELSE IF subcategory \in {"bread", "grain"} THEN <<qty * 150>>
       ELSE <<>>
  ELSE <<>>

\* the weight of qty (hundredths, above 0) of an item, in ten-thousandths of a
\* pound, <<>> when there is no estimate
WeightOfQuantity(qty, name, unit, subcategory) ==
  IF unit \in {"lb", "lbs", "pound", "pounds"} THEN <<qty * 100>>
  ELSE IF Contains(unit, "pallet") THEN <<qty * PalletRate(unit)>>
  ELSE IF unit \in {"case", "cases", "box", "boxes"} THEN <<qty * CaseRate(name, subcategory)>>
  ELSE IF unit \in {"bag", "bags"} THEN <<qty * 500>>
  ELSE IF ItemWeightHits(name) # {} THEN FirstItemWeight(ItemWeightHits(name), qty)
  ELSE SubcategoryWeight(qty, unit, subcategory)

\* the estimate for a quantity that float accepted (<<qty>>) or not (<<>>)
WeightOfParsed(parsed, name, unit, subcategory) ==
  IF parsed = <<>> THEN <<>>
  ELSE IF parsed[1] <= 0 THEN <<>>
  ELSE WeightOfQuantity(parsed[1], name, unit, subcategory)

\* estimate_item_weight of the fields of an item: the weight in
\* ten-thousandths of a pound, <<>> for None.  add_estimated_weights calls it
\* for items without estimated_lbs only, so the early return of line 570
\* is never taken.
estimate_item_weight(item) ==
  IF DOMAIN item = {} THEN <<>>
  ELSE WeightOfParsed(IF Truthy(Get(item, "quantity")) THEN FloatOf(Get(item, "quantity"))
                      ELSE <<0>>,
                      Strip(Lower(StrOf(GetDefault(item, "name", JStr(""))))),
                      Strip(Lower(StrOf(GetDefault(item, "unit", JStr(""))))),
                      Strip(Lower(StrOf(GetDefault(item, "subcategory", JStr(""))))))

\* item_copy with the weight, when there is one, rounded to one decimal.
\* (Python rounds the binary float: a weight that ends in exactly 5
\* hundredths and is no multiple of 0.25 goes up or down with the error of
\* its float; the weights of the sample requests are not of that kind.)
WithWeight(item_copy, weight) ==
  IF weight = <<>> THEN item_copy
  ELSE WithField(item_copy, "estimated_lbs", JNum(10 * RoundHalfEven(weight[1], 1000)))

\* a faulty variant: every item gets the estimate, a submitted weight is lost
WeighedAgain(item) ==
  JObj(WithWeight(item[2], estimate_item_weight([k \in DOMAIN item[2] \ {"estimated_lbs"} |->
                                                   item[2][k]])))

\* one iteration of the loop of add_estimated_weights over an object
Weighed(item) ==
  IF Get(item[2], "estimated_lbs") = JNull
  THEN JObj(WithWeight(item[2], estimate_item_weight(item[2])))
  ELSE item

\* add_estimated_weights: <<the list>>, or <<>> when dict(item) raises (an
\* item that is not an object)
add_estimated_weights(items) ==
  IF items = <<>> THEN <<items>>
  ELSE IF \E k \in 1..Len(items) : ~IsObj(items[k]) THEN <<>>
  ELSE <<[k \in 1..Len(items) |-> Weighed(items[k])]>>

\* float(item.get("estimated_lbs") or 0)
LbsOf(item) ==
  IF Truthy(Get(item[2], "estimated_lbs")) THEN FloatOf(Get(item[2], "estimated_lbs")) ELSE <<0>>

RECURSIVE SumLbs(_, _)
\* the sum of the weights of items[k..], in hundredths
SumLbs(items, k) == IF k > Len(items) THEN 0 ELSE LbsOf(items[k])[1] + SumLbs(items, k + 1)

\* sum(float(...) for item in items_with_weights): <<sum>>, <<>> when float raises
TotalLbs(items) ==
  IF \E k \in 1..Len(items) : LbsOf(items[k]) = <<>> THEN <<>> ELSE <<SumLbs(items, 1)>>

\* round(total_lbs, 1) if total_lbs > 0 else None
StoredTotal(total_lbs) ==
  IF total_lbs > 0 THEN JNum(10 * RoundHalfEven(total_lbs, 10)) ELSE JNull

\* the id the store gives the row it inserts into a table of n rows
NewId(n) == Ch(Digits, n + 2)

\* the row the store keeps for an insert
InsertedRow(table, payload, items_with_weights, total_lbs) ==
  [ id |-> NewId(Len(table)),
    location |-> Get(payload, "location"),
    rescued_at |-> Get(payload, "rescued_at"),
    items |-> JList(items_with_weights),
    total_estimated_lbs |-> StoredTotal(total_lbs),
    photo_urls |-> GetDefault(payload, "photo_urls", JList(<<>>)),
    notes |-> Get(payload, "notes") ]

Rejected(table, detail) ==
  [status_code |-> 400, detail |-> detail, table |-> table]

\* an exception that no handler of the function catches
Failed(table) ==
  [status_code |-> 500, detail |-> "Internal Server Error", table |-> table]

Created(table, row) ==
  [status_code |-> 200, status |-> "ok", id |-> row.id, table |-> Append(table, row)]

SaveWithTotal(table, payload, items_with_weights, total_lbs) ==
  IF total_lbs = <<>> THEN Failed(table)
  ELSE Created(table, InsertedRow(table, payload, items_with_weights, total_lbs[1]))

SaveWeighed(table, payload, weighed) ==
  IF weighed = <<>> THEN Failed(table)
  ELSE SaveWithTotal(table, payload, weighed[1], TotalLbs(weighed[1]))

\* lines 702 to 723: the items of the payload are checked, weighed and stored
SaveItems(table, payload, items) ==
  IF ~IsList(items) THEN Rejected(table, "items must be an array")
  ELSE SaveWeighed(table, payload, add_estimated_weights(items[2]))

\* create_rescue_log on the table rescue_logs: the response and the table
\* after the request
create_rescue_log(table, payload) ==
  IF ~Truthy(Get(payload, "location"))
  THEN Rejected(table, "Missing required field: location")
  ELSE IF ~Truthy(Get(payload, "rescued_at"))
  THEN Rejected(table, "Missing required field: rescued_at")
  ELSE SaveItems(table, payload, GetDefault(payload, "items", JList(<<>>)))

(***************************************************************************)
(* parse_sections over texts of label lines, item lines and other lines.   *)
(***************************************************************************)
\* the most lines of a text
MaxLines == 3

\* the lines of the texts: labels, a label of blanks, item lines, a line that
\* is neither
SectionLines == {"Aldi:", "UC:", " :", "2 boxes apples", "3 cases milk", "thanks all"}

InitSections ==
  /\ \E n \in 0..MaxLines : \E f \in [1..n -> SectionLines] :
       call = [fn |-> "parse_sections", text |-> Join(f, "\n")]
  /\ result = <<>>
  /\ pc = "call"
  /\ rows = <<>> /\ window = 0 /\ groups = <<>> /\ records = <<>>
  /\ TablesEmpty /\ NoRequests /\ TrainerIdle

ParseSections ==
  /\ pc = "call"
  /\ call.fn = "parse_sections"
  /\ result = <<>>
  /\ result' = <<parse_sections(WEIGHT_CONFIG, call.text)>>
  /\ UNCHANGED <<rows, window, groups, records, pc, call, rescue_logs, slack_messages_audited, requests, registry, trainer>>

NextSections == ParseSections

SpecSections == InitSections /\ [][NextSections]_vars

(***************************************************************************)
(* load_audited: the records of the table slack_messages_audited followed  *)
(* by the rows of the table rescue_logs, normalized for the statistics.    *)
(***************************************************************************)
\* row.get(k) or default
GetOrElse(row, k, default) == IF Truthy(Get(row, k)) THEN Get(row, k) ELSE default

\* a faulty variant: a section also for a row without items
SectionsAlways(row, items) ==
  << [location_canonical |-> GetOrElse(row, "location", JStr("")), items |-> items] >>

\* the sections of the normalized record of a row with the items
SectionsOf(row, items) ==
  IF Truthy(items)
  THEN << [location_canonical |-> GetOrElse(row, "location", JStr("")), items |-> items] >>
  ELSE <<>>

\* the normalized record of a row of rescue_logs whose total is total lbs
NormalizedOf(row, total) ==
  [ id |-> "rescue-" \o row.id,
    source |-> "rescue_logs",
    rescue_location_canonical |-> GetOrElse(row, "location", JStr("")),
    drop_off_location_canonical |-> JStr(""),
    start_ts |-> GetOrElse(row, "rescued_at", Get(row, "created_at")),
    raw_messages |-> JList(<<>>),
    sections |-> SectionsOf(row, GetOrElse(row, "items", JList(<<>>))),
    total_estimated_lbs |-> JNum(total),
    photo_urls |-> GetOrElse(row, "photo_urls", JList(<<>>)),
    audited |-> TRUE,
    recurring |-> FALSE ]

\* whether the loop over the rows of rescue_logs raises at the row (no id,
\* or a total that float does not take)
NormalizeRaises(row) ==
  \/ "id" \notin DOMAIN row
  \/ FloatOf(GetOrElse(row, "total_estimated_lbs", JNum(0))) = <<>>

RECURSIVE NormalizedFrom(_, _)
\* the normalized records of table[k..], up to the first row that raises
NormalizedFrom(table, k) ==
  IF k > Len(table) THEN <<>>
  ELSE IF NormalizeRaises(table[k]) THEN <<>>
  ELSE <<NormalizedOf(table[k], FloatOf(GetOrElse(table[k], "total_estimated_lbs", JNum(0)))[1])>>
       \o NormalizedFrom(table, k + 1)

RECURSIVE AuditedFrom(_, _)
\* row["data"] of audited[k..], up to the first row that raises
AuditedFrom(audited, k) ==
  IF k > Len(audited) THEN <<>>
  ELSE IF "data" \notin DOMAIN audited[k] THEN <<>>
  ELSE <<audited[k].data>> \o AuditedFrom(audited, k + 1)

\* load_audited over the two tables
load_audited(audited, table) == AuditedFrom(audited, 1) \o NormalizedFrom(table, 1)

(***************************************************************************)
(* The service under requests: POST /rescue-log with any of the sample     *)
(* payloads, and load_audited.                                             *)
(***************************************************************************)
\* the most rows the table rescue_logs gets
MaxLogs == 2

Apples == [name |-> JStr("Apples"), quantity |-> JNum(200), unit |-> JStr("cs")]
Bread == [name |-> JStr("Bread"), quantity |-> JNum(1000), unit |-> JStr("loaves")]
Bananas == [name |-> JStr("bananas"), quantity |-> JNum(300)]
Weighed25 == [name |-> JStr("Milk"), quantity |-> JNum(100), unit |-> JStr("gal"),
              estimated_lbs |-> JNum(250)]
Mystery == [name |-> JStr("stuff"), unit |-> JStr("box")]
Returned == [name |-> JStr("returns"), estimated_lbs |-> JNum(-500)]
Unweighable == [name |-> JStr("Rice"), estimated_lbs |-> JStr("heavy")]

\* the lists of items of the sample payloads
SampleItemLists ==
  << <<>>,
     <<JObj(Apples), JObj(Bread)>>,
     <<JObj(Weighed25), JObj(Bananas)>>,
     <<JObj(Mystery)>>,
     <<JObj(Bananas), JObj(Weighed25), JObj(Apples)>>,
     <<JObj(Returned)>>,
     <<JObj(Returned), JObj(Weighed25)>>,
     <<JObj(Unweighable)>>,
     <<JStr("apples")>>,
     <<JObj(Apples), JNum(200)>> >>

\* the sample payloads: complete ones with each list of items, and ones with
\* a field missing, empty or of another type
SamplePayloads ==
  [k \in 1..Len(SampleItemLists) |->
     [location |-> JStr("Aldi Wicker Park"), rescued_at |-> JStr("2024-01-04"),
      items |-> JList(SampleItemLists[k]), photo_urls |-> JList(<<>>)]]
  \o << [rescued_at |-> JStr("2024-01-04"), items |-> JList(<<JObj(Apples)>>)],
        [location |-> JStr(""), rescued_at |-> JStr("2024-01-04"),
         items |-> JList(<<JObj(Apples)>>)],
        [location |-> JNull, rescued_at |-> JStr("2024-01-04"), items |-> JList(<<>>)],
        [location |-> JStr("Aldi Wicker Park"), items |-> JList(<<JObj(Apples)>>)],
        [location |-> JStr("Aldi Wicker Park"), rescued_at |-> JStr(""), items |-> JList(<<>>)],
        [location |-> JStr("Aldi Wicker Park"), rescued_at |-> JStr("2024-01-04"),
         items |-> JStr("not an array")],
        [location |-> JStr("Aldi Wicker Park"), rescued_at |-> JStr("2024-01-04"),
         items |-> JNull],
        [location |-> JStr("UC"), rescued_at |-> JStr("2024-01-05"), notes |-> JStr("n")] >>

\* the records that save_audited_record has put into slack_messages_audited
AuditedAldi ==
  [ id |-> "7", rescue_location_canonical |-> JStr("Aldi Wicker Park"),
    sections |-> <<>>, total_estimated_lbs |-> JNull, audited |-> TRUE ]
AuditedFridge ==
  [ id |-> "9", rescue_location_canonical |-> JStr(""),
    drop_off_location_canonical |-> JStr("Love Fridge"),
    sections |-> <<>>, total_estimated_lbs |-> JNum(1250), audited |-> TRUE ]

\* the sample contents of the table slack_messages_audited
SampleAudited ==
  { <<>>,
    << [id |-> "7", data |-> AuditedAldi] >>,
    << [id |-> "9", data |-> AuditedFridge], [id |-> "7", data |-> AuditedAldi] >> }

InitService ==
  /\ rescue_logs = <<>>
  /\ slack_messages_audited \in SampleAudited
  /\ pc = "serve"
  /\ rows = <<>> /\ window = 0 /\ groups = <<>> /\ records = <<>>
  /\ CallIdle /\ NoRequests /\ TrainerIdle

\* POST /rescue-log with one of the payloads
PostRescueLog ==
  /\ pc = "serve"
  /\ Len(rescue_logs) < MaxLogs
  /\ \E k \in 1..Len(SamplePayloads) :
       /\ call' = [fn |-> "create_rescue_log", payload |-> SamplePayloads[k]]
       /\ result' = <<create_rescue_log(rescue_logs, SamplePayloads[k])>>
       /\ rescue_logs' = create_rescue_log(rescue_logs, SamplePayloads[k]).table
  /\ UNCHANGED <<rows, window, groups, records, pc, slack_messages_audited, requests, registry, trainer>>

\* load_audited, as the statistics endpoints call it
LoadAudited ==
  /\ pc = "serve"
  /\ call' = [fn |-> "load_audited"]
  /\ result' = <<load_audited(slack_messages_audited, rescue_logs)>>
  /\ UNCHANGED <<rows, window, groups, records, pc, rescue_logs, slack_messages_audited, requests, registry, trainer>>

NextService == PostRescueLog \/ LoadAudited

SpecService == InitService /\ [][NextService]_vars

(***************************************************************************)
(* Properties of the sessions of group_messages (SpecGrouper).             *)
(***************************************************************************)
\* the event of the export a message text comes from (the usable events of
\* SpecGrouper have distinct texts)
PosOf(t) == CHOOSE i \in 1..Len(rows) : rows[i].text = t
RowOf(t) == rows[PosOf(t)]

\* the messages of the sessions, session after session
RECURSIVE AllMessages(_)
AllMessages(gs) == IF gs = <<>> THEN <<>> ELSE Head(gs).messages \o AllMessages(Tail(gs))

\* the texts of the usable events, in the order of the export
UsableTexts == [i \in 1..Len(SelectRows(rows)) |-> SelectRows(rows)[i].text]

\* event b may follow event a in one session
Mergeable(a, b, w) ==
  /\ a.user = b.user
  /\ a.dt # None
  /\ b.dt # None
  /\ b.dt[1] - a.dt[1] <= w

\* C1: every session has at least one message, all its messages are of the
\* session's one author, and the timestamps of consecutive messages of a
\* session are readable and do not decrease.
C1_SessionsWellFormed ==
  pc = "grouped" =>
    \A k \in 1..Len(groups) :
      LET g == groups[k] IN
      /\ Len(g.messages) >= 1
      /\ Len(g.timestamps) = Len(g.messages)
      /\ \A i \in 1..Len(g.messages) :
           /\ RowOf(g.messages[i]).user = g.user
           /\ RowOf(g.messages[i]).ts = g.timestamps[i]
      /\ \A i \in 1..(Len(g.messages) - 1) :
           /\ parse_iso(g.timestamps[i]) # None
           /\ parse_iso(g.timestamps[i + 1]) # None
           /\ parse_iso(g.timestamps[i])[1] <= parse_iso(g.timestamps[i + 1])[1]

\* an export out of time order was grouped into several sessions, one of
\* them of two messages with different timestamps
C1_Witness ==
  /\ pc = "grouped"
  /\ Len(groups) >= 2
  /\ \E k \in 1..Len(groups) :
       /\ Len(groups[k].messages) >= 2
       /\ groups[k].timestamps[1] # groups[k].timestamps[2]
  /\ \E i, j \in 1..Len(rows) :
       i < j /\ IsUsable(rows[i]) /\ IsUsable(rows[j]) /\ SortKey(rows[j]) < SortKey(rows[i])

\* C2 as the specification states it: the messages of the sessions, session
\* after session, are the usable events in the order of the export, whatever
\* that order.
C2_ConcatIsInputOrder == pc = "grouped" => AllMessages(groups) = UsableTexts

\* C2: the messages of the sessions, session after session, are the usable
\* events, each once, in non-decreasing order of timestamp (the events without
\* a readable timestamp first), the events of equal timestamp in the order of
\* the export; this is the order of the export only when the export is in
\* that order already.
C2_ConcatIsStableTimeOrder ==
  pc = "grouped" =>
    LET out == AllMessages(groups) IN
    /\ Len(out) = Len(UsableTexts)
    /\ {out[j] : j \in 1..Len(out)} = {UsableTexts[j] : j \in 1..Len(UsableTexts)}
    /\ \A i, j \in 1..Len(out) :
         i < j =>
           \/ SortKey(RowOf(out[i])) < SortKey(RowOf(out[j]))
           \/ /\ SortKey(RowOf(out[i])) = SortKey(RowOf(out[j]))
              /\ PosOf(out[i]) < PosOf(out[j])

\* an export with an event filtered out and usable events out of time order
\* was grouped, and the sessions do not follow the order of the export
C2_Witness ==
  /\ pc = "grouped"
  /\ Len(UsableTexts) >= 2
  /\ Len(UsableTexts) < Len(rows)
  /\ AllMessages(groups) # UsableTexts

\* C3: two events that follow each other in the scan are in one session
\* exactly when they have the same author and the second is at most the
\* window after the first: consecutive messages of a session are so, and the
\* last message of a session and the first of the next are not.
C3_JoinsIffSameAuthorWithinWindow ==
  pc = "grouped" =>
    /\ \A k \in 1..Len(groups) : \A i \in 1..(Len(groups[k].messages) - 1) :
         Mergeable(RowOf(groups[k].messages[i]), RowOf(groups[k].messages[i + 1]), window)
    /\ \A k \in 1..(Len(groups) - 1) :
         ~Mergeable(RowOf(groups[k].messages[Len(groups[k].messages)]),
                    RowOf(groups[k + 1].messages[1]), window)

\* a session of three messages spans more than the window
C3_Witness ==
  /\ pc = "grouped"
  /\ \E k \in 1..Len(groups) :
       LET g == groups[k] IN
       /\ Len(g.messages) >= 3
       /\ parse_iso(g.timestamps[Len(g.timestamps)])[1] - parse_iso(g.timestamps[1])[1] > window

(***************************************************************************)
(* Properties of the records of main (Spec).                               *)
(***************************************************************************)
\* the item lists of sections, one after the other
RECURSIVE SectionItems(_)
SectionItems(secs) == IF secs = <<>> THEN <<>> ELSE Head(secs).items \o SectionItems(Tail(secs))

\* C5 as the specification states it: the items of every record are the item
\* lists of its sections, one after the other.
C5_ItemsAreSectionItems ==
  \A k \in 1..Len(records) : records[k].items = SectionItems(records[k].sections)

\* C5: the items of a record with sections are the item lists of its
\* sections, one after the other, a drop-off section appended last (its
\* location the drop-off location of the record, its items the items of the
\* record once more) not counted; a record without section has no location
\* and its items are the items of its whole text.
C5_ItemsAreParsedSectionItems ==
  \A k \in 1..Len(records) :
    LET r == records[k]
        n == Len(r.sections)
    IN IF n = 0
       THEN /\ r.rescue_location = ""
            /\ r.drop_off_location = ""
            /\ r.items = parse_items(WEIGHT_CONFIG, Join(r.raw_messages, "\n"))
       ELSE \/ r.items = SectionItems(r.sections)
            \/ /\ n >= 2
               /\ r.sections[n].location = r.drop_off_location
               /\ r.sections[n].items = r.items
               /\ r.items = SectionItems(SubSeq(r.sections, 1, n - 1))

\* a record of a labelled section with items and a drop-off section appended,
\* and a record with items and no section
C5_Witness ==
  /\ \E k \in 1..Len(records) :
       LET r == records[k] IN
       /\ Len(r.sections) >= 2
       /\ r.sections[1].items # <<>>
       /\ r.items # SectionItems(r.sections)
  /\ \E k \in 1..Len(records) : records[k].sections = <<>> /\ records[k].items # <<>>

\* C6: the k-th record has id k and the author of the k-th session, the
\* timestamp of its first message as start_ts, that of its last message as
\* end_ts, and its messages unchanged; when the run is over there is one
\* record per session, and none when no event is usable.
C6_OneRecordPerSession ==
  /\ Len(records) <= Len(groups)
  /\ \A k \in 1..Len(records) :
       LET r == records[k]
           g == groups[k]
       IN /\ r.id = k
          /\ r.user = g.user
          /\ r.start_ts = g.timestamps[1]
          /\ r.end_ts = g.timestamps[Len(g.timestamps)]
          /\ r.raw_messages = g.messages
  /\ pc = "written" => Len(records) = Len(groups)
  /\ (pc # "start" /\ SelectRows(rows) = <<>>) => groups = <<>>

\* a run is over with several records, one of a session of several messages
\* that ends later than it starts
C6_Witness ==
  /\ pc = "written"
  /\ Len(records) >= 2
  /\ \E k \in 1..Len(records) :
       /\ Len(records[k].raw_messages) >= 2
       /\ records[k].start_ts # records[k].end_ts

(***************************************************************************)
(* Properties of detect_direction (SpecDirection).                         *)
(***************************************************************************)
\* whether a phrase of the vocabulary occurs in the text, whatever the case
\* of its letters
Mentions(text, vocabulary) ==
  \E k \in 1..Len(vocabulary) : Contains(Lower(text), vocabulary[k])

\* the decision table
DirectionTable(text, rescue_loc, drop_loc) ==
  IF rescue_loc # "" \/ drop_loc # ""
  THEN IF rescue_loc # "" /\ drop_loc # "" THEN "both"
       ELSE IF rescue_loc # "" THEN "inbound" ELSE "outbound"
  ELSE IF Mentions(text, InboundPhrases) /\ Mentions(text, OutboundPhrases) THEN "both"
       ELSE IF Mentions(text, InboundPhrases) THEN "inbound"
       ELSE IF Mentions(text, OutboundPhrases) THEN "outbound"
       ELSE "unknown"

\* C4: detect_direction is the decision table: both locations give "both",
\* the rescue location alone "inbound", the drop-off location alone
\* "outbound"; without locations the phrases of the text decide, both
\* vocabularies giving "both", one of them its direction, none "unknown".
\* The phrases of the text never change what the locations decide.
C4_DirectionIsDecisionTable ==
  (pc = "call" /\ call.fn = "detect_direction" /\ result # <<>>) =>
     result[1] = DirectionTable(call.text, call.rescue_loc, call.drop_loc)

\* the rescue location alone decides "inbound" for a text that has a phrase
\* of the outbound vocabulary and none of the inbound one
C4_Witness ==
  /\ pc = "call" /\ call.fn = "detect_direction" /\ result = <<"inbound">>
  /\ call.rescue_loc # "" /\ call.drop_loc = ""
  /\ Mentions(call.text, OutboundPhrases) /\ ~Mentions(call.text, InboundPhrases)

(***************************************************************************)
(* Properties of the canonicalizers (SpecCanon).                           *)
(***************************************************************************)
\* C7: canonicalizing the result of a canonicalization gives the same
\* result, for canonical_loc and for canonicalize_location, with the
\* built-in table and with a loaded one.
C7_CanonicalizationIdempotent ==
  (pc = "call" /\ call.fn \in {"canonical_loc", "canonicalize_location"} /\ Len(result) = 2) =>
     result[2] = result[1]

\* the text the canonicalizer of the call looks up, before it is made a key
CleanedOfCall ==
  IF call.fn = "canonical_loc" THEN CleanedLoc(call.value)
  ELSE TrimLocation(KeepAfterAt(strip_location_lead_ins(call.value)))

\* the alias keys that occur in the key, by their place in the table
KeysWithin(aliases, key) ==
  {i \in 1..Len(aliases) : \E p \in 1..(Len(key) - Len(aliases[i][1]) + 1) :
      SubSeq(key, p, p + Len(aliases[i][1]) - 1) = aliases[i][1]}

\* the resolution in the stated order: the exact key, or else the first
\* alias key within the key, or else the cleaned text
Resolved(aliases, key, cleaned) ==
  IF \E i \in 1..Len(aliases) : aliases[i][1] = key
  THEN aliases[CHOOSE i \in 1..Len(aliases) : aliases[i][1] = key][2]
  ELSE IF KeysWithin(aliases, key) # {}
       THEN aliases[CHOOSE i \in KeysWithin(aliases, key) :
                      \A j \in KeysWithin(aliases, key) : i <= j][2]
       ELSE cleaned

\* C8: the canonicalizer returns the canonical name of the alias key that is
\* exactly the key of the cleaned input, or else that of the first alias
\* key, in table order, that occurs in the key, or else the cleaned input
\* itself; nothing (the empty string, null in the exporter) only when
\* cleaning left nothing.
C8_LookupOrder ==
  (pc = "call" /\ call.fn \in {"canonical_loc", "canonicalize_location"} /\ Len(result) >= 1) =>
     IF call.fn = "canonical_loc"
     THEN result[1] = Resolved(call.aliases, normalize_loc(CleanedOfCall), CleanedOfCall)
     ELSE result[1] = IF CleanedOfCall = "" THEN None
                      ELSE Some(Resolved(call.aliases, normalize_location_key(CleanedOfCall),
                                         CleanedOfCall))

(***************************************************************************)
(* Properties of estimate_weight (SpecWeight).                             *)
(***************************************************************************)
\* C9: estimate_weight returns null or a weight that is not negative,
\* whatever the sign of the rates of the configuration, and returns null
\* when the quantity is null or not greater than 0.
C9_WeightNullOrNonNegative ==
  (pc = "call" /\ call.fn = "estimate_weight" /\ result # <<>>) =>
     /\ result[1] = None \/ result[1][1] >= 0
     /\ (call.qty = None \/ call.qty[1] <= 0) => result[1] = None

\* a positive quantity of a unit that is not a weight gets no estimate: the
\* rate of the configuration is negative
C9_Witness ==
  /\ pc = "call" /\ call.fn = "estimate_weight" /\ result = <<None>>
  /\ call.qty # None /\ call.qty[1] > 0
  /\ call.unit = Some("widget")

\* estimate_weight has been applied to a positive quantity
WeighedCall ==
  /\ pc = "call" /\ call.fn = "estimate_weight" /\ result # <<>>
  /\ call.qty # None /\ call.qty[1] > 0

\* unit_norm and name_norm of the call
UnitNormOfCall == IF call.unit = None THEN "" ELSE Lower(call.unit[1])
NameNormOfCall == Lower(call.name)

\* the unit is one of the direct weight units
IsWeightUnit(unit_norm) == unit_norm \in {"lb", "lbs", "pound", "pounds"}

\* the rate of the first item-specific override that has its keyword in the
\* name and a rate for the unit
OverrideRate(cfg, unit_norm, name_norm) ==
  LET item_specific == GetOr(cfg, "item_specific", <<>>)
      first == CHOOSE i \in ItemSpecificHits(cfg, unit_norm, name_norm) :
                 \A j \in ItemSpecificHits(cfg, unit_norm, name_norm) : i <= j
  IN GetOr(item_specific[first][2], unit_norm, 0)

\* the estimate of the third rule: default rate, category rates, unit floors
GeneralEstimate(cfg, qty, unit_norm, name_norm) ==
  RoundHundredths(UnitFloorRate(cfg, CategoryRate(cfg, GetOr(GetOr(cfg, "base", <<>>),
                                                             "default", 500), name_norm),
                                unit_norm, name_norm) * qty)

\* C22 as the specification states it: with a direct weight unit the result is
\* the quantity; else with an applicable item-specific override the result is
\* the quantity times the rate of the override; else the default rate, the
\* category rates and the unit floors give the result.
C22_PriorityOfRules ==
  WeighedCall =>
    IF IsWeightUnit(UnitNormOfCall) THEN result[1] = Some(call.qty[1])
    ELSE IF ItemSpecificHits(call.cfg, UnitNormOfCall, NameNormOfCall) # {}
    THEN result[1] = Some(RoundHundredths(
                       OverrideRate(call.cfg, UnitNormOfCall, NameNormOfCall) * call.qty[1]))
    ELSE result[1] = NonNegativeOrNone(
                       GeneralEstimate(call.cfg, call.qty[1], UnitNormOfCall, NameNormOfCall))

\* C22: with a direct weight unit the result is the quantity, whatever the
\* configuration; else with an applicable item-specific override the result
\* is the quantity times the rate of the first such override, rounded to 2
\* decimals, and null when that product is negative, without category rates
\* and unit floors; only else the default rate, the category rates and the
\* unit floors give the result.
C22_PriorityOfRulesNullWhenNegative ==
  WeighedCall =>
    IF IsWeightUnit(UnitNormOfCall) THEN result[1] = Some(call.qty[1])
    ELSE IF ItemSpecificHits(call.cfg, UnitNormOfCall, NameNormOfCall) # {}
    THEN IF OverrideRate(call.cfg, UnitNormOfCall, NameNormOfCall) * call.qty[1] < 0
         THEN result[1] = None
         ELSE result[1] = Some(RoundHundredths(
                            OverrideRate(call.cfg, UnitNormOfCall, NameNormOfCall)
                            * call.qty[1]))
    ELSE result[1] = NonNegativeOrNone(
                       GeneralEstimate(call.cfg, call.qty[1], UnitNormOfCall, NameNormOfCall))

\* pounds of apples keep their quantity although an override has another rate
\* for the unit "lb"
C22_Witness ==
  /\ WeighedCall
  /\ call.unit = Some("lb") /\ call.name = "apples"
  /\ ItemSpecificHits(call.cfg, "lb", "apples") # {}
  /\ OverrideRate(call.cfg, "lb", "apples") = 200
  /\ result[1] = Some(call.qty[1])

\* the built-in floor of a unit, in hundredths: <<floor>>, <<>> for a unit
\* without one
BuiltInFloor(unit_norm) ==
  IF Contains(unit_norm, "bag") THEN <<800>>
  ELSE IF Contains(unit_norm, "bin") \/ Contains(unit_norm, "tote")
          \/ Contains(unit_norm, "crate") THEN <<2500>>
  ELSE IF Contains(unit_norm, "box") \/ Contains(unit_norm, "case")
          \/ Contains(unit_norm, "package") THEN <<1500>>
  ELSE IF Contains(unit_norm, "flat") THEN <<1200>>
  ELSE IF Contains(unit_norm, "gallon") THEN <<800>>
  ELSE IF Contains(unit_norm, "dozen") THEN <<400>>
  ELSE IF Contains(unit_norm, "loaf") THEN <<50>>
  ELSE IF Contains(unit_norm, "bottle") \/ Contains(unit_norm, "can")
          \/ Contains(unit_norm, "jar") THEN <<200>>
  ELSE IF Contains(unit_norm, "tray") \/ Contains(unit_norm, "clamshell") THEN <<300>>
  ELSE IF Contains(unit_norm, "bunch") THEN <<500>>
  ELSE IF Contains(unit_norm, "each") THEN <<200>>
  ELSE <<>>

\* the floor the rate of a unit is held to: the entry of the unit-override
\* table, else the built-in floor
FloorOfUnit(cfg, unit_norm) ==
  IF HasKey(GetOr(cfg, "unit_overrides", <<>>), unit_norm)
  THEN <<GetOr(GetOr(cfg, "unit_overrides", <<>>), unit_norm, 0)>>
  ELSE BuiltInFloor(unit_norm)

\* C23: the estimate of a positive quantity, for a unit that is no direct
\* weight unit and a name without applicable item-specific override, is at
\* least the quantity times the floor of the unit: the entry of the
\* unit-override table when it has one for the unit, else the built-in floor
\* of the unit, for units of one word and of several.
C23_RateAtLeastFloor ==
  ( /\ WeighedCall
    /\ ~IsWeightUnit(UnitNormOfCall)
    /\ ItemSpecificHits(call.cfg, UnitNormOfCall, NameNormOfCall) = {}
    /\ FloorOfUnit(call.cfg, UnitNormOfCall) # <<>>
    /\ result[1] # None ) =>
      result[1][1] >= RoundHundredths(FloorOfUnit(call.cfg, UnitNormOfCall)[1] * call.qty[1])

\* the categories of the category step, in the order of their tests
CategoryOrder == <<"produce_heavy", "produce_light", "meat", "dairy", "seafood">>

\* the categories one of whose keywords is in the name
CategoriesOf(cfg, name_norm) ==
  {i \in 1..Len(CategoryOrder) :
     AnyIn(name_norm, GetOr(GetOr(cfg, "food_weights", <<>>), CategoryOrder[i], <<>>))}

\* the configured default per-unit rate
DefaultRate(cfg) == GetOr(GetOr(cfg, "base", <<>>), "default", 500)

\* the base rate of a category, seafood having the rate of meat; the default
\* rate when the configuration has none
BaseRateOf(cfg, i) ==
  GetOr(GetOr(cfg, "base", <<>>),
        IF CategoryOrder[i] = "seafood" THEN "meat" ELSE CategoryOrder[i],
        DefaultRate(cfg))

\* the first of a set of categories
FirstOf(cats) == CHOOSE i \in cats : \A j \in cats : i <= j

\* estimate_weight has been applied to a positive quantity of a categorized
\* item to which no rule before the category step applies
CategorizedCall ==
  /\ WeighedCall
  /\ ~IsWeightUnit(UnitNormOfCall)
  /\ ItemSpecificHits(call.cfg, UnitNormOfCall, NameNormOfCall) = {}
  /\ CategoriesOf(call.cfg, NameNormOfCall) # {}

LettersOf(name) == {i \in 1..Len(name) : Ch(name, i) \in AlphaSet}

\* C10: every item parse_items returns has a name of 3 letters or more, and
\* so a name that is not empty.
C10_NamesHaveThreeLetters ==
  (pc = "call" /\ call.fn = "parse_items" /\ result # <<>>) =>
     \A k \in 1..Len(result[1]) :
        /\ Cardinality(LettersOf(result[1][k].name)) >= 3
        /\ result[1][k].name # ""

\* of a line with a name of two letters and a name of six, only the item of
\* the second is returned
C10_Witness ==
  /\ pc = "call" /\ call.fn = "parse_items"
  /\ call.text = "2 boxes ab\n3 cases apples"
  /\ result # <<>> /\ Len(result[1]) = 1 /\ result[1][1].name = "apples"

\* the quantity of an item, in hundredths
QuantityOf(item) == item.quantity[1]

\* C11: no item parse_items returns has a quantity over 500, and none
\* without unit has a quantity over 150, the unit being the one the clean-up
\* of the name has recovered; a line with the quantity 1000 and no unit gives
\* no item.
C11_QuantitiesUnderCeilings ==
  (pc = "call" /\ call.fn = "parse_items" /\ result # <<>>) =>
     /\ \A k \in 1..Len(result[1]) :
          /\ QuantityOf(result[1][k]) <= 500 * 100
          /\ result[1][k].unit = None => QuantityOf(result[1][k]) <= 150 * 100
     /\ call.text = "1000 apples" => result[1] = <<>>

\* an item of 200 is returned with the unit that stood after its name
C11_Witness ==
  /\ pc = "call" /\ call.fn = "parse_items" /\ call.text = "200 apples boxes"
  /\ result # <<>> /\ Len(result[1]) = 1
  /\ result[1][1].unit = Some("box") /\ QuantityOf(result[1][1]) = 200 * 100

(***************************************************************************)
(* Properties of the record of a pick-up message (SpecPickup).             *)
(***************************************************************************)
\* the name, the quantity and the unit of the items of a record
NamedQuantities(items) ==
  [k \in 1..Len(items) |->
     <<items[k].name, items[k].quantity, items[k].unit>>]

\* C12: the record of "Picked up <items> and <items> from <Location>" has
\* <Location> as rescue location, the direction "inbound", and the two items
\* told, the second without the words "from <Location>" in its name.
C12_PickupRecord ==
  (pc = "written" /\ Len(rows) = 1) =>
     \A sh \in PickupShapes :
        rows[1].text = PickupText(sh) =>
           /\ Len(records) = 1
           /\ records[1].rescue_location = sh.location
           /\ records[1].direction = "inbound"
           /\ NamedQuantities(records[1].items) =
                << <<sh.first.name, Some(sh.first.quantity), Some(sh.first.unit)>>,
                   <<sh.second.name, Some(sh.second.quantity), Some(sh.second.unit)>> >>

(***************************************************************************)
(* Properties of POST /rescue-log and load_audited (SpecService).          *)
(***************************************************************************)
\* a field that is there with a value that is not null and not empty
HasValue(payload, k) ==
  k \in DOMAIN payload /\ payload[k] # JNull /\ payload[k] # JStr("")

\* C13: a request without location (missing or empty), without rescued_at,
\* or with items that are not a list is answered 400 and inserts nothing; a
\* request with a location, a rescued_at and a list of items, empty or not,
\* inserts exactly one row and is answered "ok" with the id of that row.
C13_RejectsOrInsertsOnce ==
  [][ (pc = "serve" /\ call'.fn = "create_rescue_log") =>
        LET payload == call'.payload
            response == result'[1]
        IN /\ ( \/ ~HasValue(payload, "location")
                \/ ~HasValue(payload, "rescued_at")
                \/ ("items" \in DOMAIN payload /\ ~IsList(payload.items)) ) =>
                   (response.status_code = 400 /\ rescue_logs' = rescue_logs)
           /\ ( /\ HasValue(payload, "location")
                /\ HasValue(payload, "rescued_at")
                /\ "items" \in DOMAIN payload /\ IsList(payload.items) ) =>
                   /\ response.status_code = 200
                   /\ response.status = "ok"
                   /\ Len(rescue_logs') = Len(rescue_logs) + 1
                   /\ SubSeq(rescue_logs', 1, Len(rescue_logs)) = rescue_logs
                   /\ response.id = rescue_logs'[Len(rescue_logs')].id
    ]_vars

\* the items a payload submits
Submitted(payload) == GetDefault(payload, "items", JList(<<>>))[2]

\* an item without its estimated_lbs
WithoutWeight(item) == [k \in DOMAIN item[2] \ {"estimated_lbs"} |-> item[2][k]]

\* the stored items are the submitted ones, one for one and in order, each
\* as submitted but for a weight filled in where none was submitted
StoredAsSubmitted(stored, submitted) ==
  /\ Len(stored) = Len(submitted)
  /\ \A k \in 1..Len(submitted) :
       /\ IsObj(stored[k])
       /\ WithoutWeight(stored[k]) = WithoutWeight(submitted[k])
       /\ Get(submitted[k][2], "estimated_lbs") # JNull => stored[k] = submitted[k]

\* the row that an accepted request has just inserted
RowStored == rescue_logs'[Len(rescue_logs')]

\* a request has just been answered "ok"
JustStored ==
  /\ pc = "serve"
  /\ call'.fn = "create_rescue_log"
  /\ result'[1].status_code = 200

\* C14 as the specification states it: the stored total is the sum of the
\* weights of the stored items rounded to one decimal, null exactly when that
\* sum is 0; the stored items are the submitted ones in order, and a
\* submitted weight is kept.
C14_TotalIsSumOrNullAtZero ==
  [][ JustStored =>
        /\ StoredAsSubmitted(RowStored.items[2], Submitted(call'.payload))
        /\ RowStored.total_estimated_lbs =
             IF SumLbs(RowStored.items[2], 1) = 0 THEN JNull
             ELSE JNum(10 * RoundHalfEven(SumLbs(RowStored.items[2], 1), 10))
    ]_vars

\* C14: the stored total is the sum of the weights of the stored items
\* rounded to one decimal when that sum is greater than 0, and null when it
\* is 0 or negative; the stored items are the submitted ones in order, each
\* unchanged but for a weight filled in where none was submitted.
C14_TotalIsPositiveSumOrNull ==
  [][ JustStored =>
        /\ StoredAsSubmitted(RowStored.items[2], Submitted(call'.payload))
        /\ RowStored.total_estimated_lbs =
             IF SumLbs(RowStored.items[2], 1) > 0
             THEN JNum(10 * RoundHalfEven(SumLbs(RowStored.items[2], 1), 10))
             ELSE JNull
    ]_vars

\* a request with an item that came with its weight and an item that got
\* one was stored, with a total
C14_Witness ==
  /\ pc = "serve"
  /\ result # <<>>
  /\ call.fn = "create_rescue_log"
  /\ result[1].status_code = 200
  /\ rescue_logs[Len(rescue_logs)].total_estimated_lbs # JNull
  /\ \E i, j \in 1..Len(Submitted(call.payload)) :
       /\ Get(Submitted(call.payload)[i][2], "estimated_lbs") # JNull
       /\ Get(Submitted(call.payload)[j][2], "estimated_lbs") = JNull
       /\ Get(rescue_logs[Len(rescue_logs)].items[2][j][2], "estimated_lbs") # JNull

\* C15: load_audited returns the record of every row of the audited table, in
\* order, followed by one normalized record per row of rescue_logs, in order:
\* its id is "rescue-" and the id of the row, its source "rescue_logs", it is
\* audited and not recurring, its rescue location is the location of the row,
\* its total the total of the row (0 when that is null), and it has one
\* section with the items of the row under that location when the row has
\* items, and no section when it has none.
C15_LoadAuditedNormalizes ==
  (pc = "serve" /\ result # <<>> /\ call.fn = "load_audited") =>
    LET out == result[1]
        na == Len(slack_messages_audited)
    IN /\ Len(out) = na + Len(rescue_logs)
       /\ \A k \in 1..na : out[k] = slack_messages_audited[k].data
       /\ \A k \in 1..Len(rescue_logs) :
            /\ out[na + k].id = "rescue-" \o rescue_logs[k].id
            /\ out[na + k].source = "rescue_logs"
            /\ out[na + k].audited = TRUE
            /\ out[na + k].recurring = FALSE
            /\ out[na + k].rescue_location_canonical = rescue_logs[k].location
            /\ out[na + k].total_estimated_lbs =
                 IF rescue_logs[k].total_estimated_lbs = JNull THEN JNum(0)
                 ELSE rescue_logs[k].total_estimated_lbs
            /\ out[na + k].sections =
                 IF rescue_logs[k].items[2] = <<>> THEN <<>>
                 ELSE << [location_canonical |-> rescue_logs[k].location,
                          items |-> rescue_logs[k].items] >>

\* load_audited has answered over an audited table with rows and a rescue
\* log with a row that has items and a row that has none
C15_Witness ==
  /\ pc = "serve"
  /\ result # <<>>
  /\ call.fn = "load_audited"
  /\ Len(slack_messages_audited) >= 1
  /\ \E i, j \in 1..Len(rescue_logs) :
       /\ rescue_logs[i].items[2] # <<>>
       /\ rescue_logs[i].total_estimated_lbs # JNull
       /\ rescue_logs[j].items[2] = <<>>

\* every message of the session has no readable timestamp
Timestampless(g) == \A m \in 1..Len(g.timestamps) : parse_iso(g.timestamps[m]) = None

\* C16: once group_messages has been applied to the export, every usable
\* event whose timestamp is missing or unreadable is a session of its own,
\* of that one message, and only sessions of such events come before it: the
\* events without timestamp are ordered before all events with one, and none
\* of them is appended to a session or has an event appended to its session.
C16_TimestamplessFirstAndAlone ==
  pc # "start" =>
    \A i \in 1..Len(rows) :
      (IsUsable(rows[i]) /\ rows[i].dt = None) =>
        \E k \in 1..Len(groups) :
          /\ groups[k].messages = <<rows[i].text>>
          /\ \A j \in 1..(k - 1) : Timestampless(groups[j])

\* the kinds of event of an export
IsJoin(r) == r.subtype = "channel_join"
IsLeave(r) == r.subtype = "channel_leave"
IsSystemEvent(r) == r.msg_type # "message"
IsBlank(r) == Strip(r.text) = ""

\* the text is a message of one of the sessions
InSomeSession(text) ==
  \E k \in 1..Len(groups) : \E m \in 1..Len(groups[k].messages) : groups[k].messages[m] = text

\* C17: the sessions hold the events of the export that are neither a join,
\* nor a leave, nor a system event, nor an event of empty or blank text, and
\* no other event.
C17_OnlyConversationalMessages ==
  pc = "grouped" =>
    \A i \in 1..Len(rows) :
      InSomeSession(rows[i].text) <=>
        ~(IsJoin(rows[i]) \/ IsLeave(rows[i]) \/ IsSystemEvent(rows[i]) \/ IsBlank(rows[i]))

(***************************************************************************)
(* Properties of the locations and sections of the records (Spec).         *)
(***************************************************************************)
\* the text of the session a record was made of
TextOf(r) == Join(r.raw_messages, "\n")

\* the rescue location of a record, given what the extractors and the
\* segmenter found in its text
RescueBackfilled(r, parsed, rescue0, drop0) ==
  /\ (parsed # <<>> /\ rescue0 = "") => r.rescue_location = parsed[1].location
  /\ rescue0 # "" => r.rescue_location = rescue0
  /\ r.drop_off_location = drop0

\* C18: the rescue location of a record whose text has at least one section
\* and no rescue location the extractor finds is the location of the first
\* section; a rescue location the extractor finds is kept as it is; the
\* drop-off location is the extracted one, sections or not.
C18_RescueFromFirstSection ==
  \A k \in 1..Len(records) :
    RescueBackfilled(records[k], parse_sections(WEIGHT_CONFIG, TextOf(records[k])),
                     extract_rescue_location(TextOf(records[k])),
                     extract_dropoff_location(TextOf(records[k])))

\* a record took its rescue location from its first section, and a record
\* with sections kept the rescue location of the extractor, which is not the
\* location of its first section
C18_Witness ==
  /\ \E k \in 1..Len(records) :
       /\ extract_rescue_location(TextOf(records[k])) = ""
       /\ records[k].sections # <<>>
       /\ records[k].rescue_location # ""
       /\ records[k].rescue_location = records[k].sections[1].location
  /\ \E k \in 1..Len(records) :
       /\ extract_rescue_location(TextOf(records[k])) # ""
       /\ parse_sections(WEIGHT_CONFIG, TextOf(records[k])) # <<>>
       /\ records[k].rescue_location # records[k].sections[1].location

\* the sections of a record, given the parsed sections of its text and the
\* drop-off location the extractor found
DropSectionAppended(r, parsed, drop0) ==
  /\ SubSeq(r.sections, 1, Len(parsed)) = parsed
  /\ IF drop0 # "" /\ \A j \in 1..Len(parsed) : parsed[j].location # drop0
     THEN /\ Len(r.sections) = Len(parsed) + 1
          /\ r.sections[Len(r.sections)] = [location |-> drop0, items |-> SectionItems(parsed)]
     ELSE Len(r.sections) = Len(parsed)
  /\ drop0 # "" => \E j \in 1..Len(r.sections) : r.sections[j].location = drop0

\* C19: the sections of a record whose text has sections are the parsed
\* sections in their order, followed by one more section, of the drop-off
\* location and with the items of all parsed sections in order, exactly when
\* the drop-off location is not empty and is the location of no parsed
\* section; with a drop-off location some section has that location.
C19_DropSectionAppendedOnce ==
  \A k \in 1..Len(records) :
    parse_sections(WEIGHT_CONFIG, TextOf(records[k])) # <<>> =>
      DropSectionAppended(records[k], parse_sections(WEIGHT_CONFIG, TextOf(records[k])),
                          extract_dropoff_location(TextOf(records[k])))

\* a record got a drop-off section after its parsed section, and a record
\* whose drop-off location heads a parsed section got none
C19_Witness ==
  /\ \E k \in 1..Len(records) :
       /\ records[k].drop_off_location # ""
       /\ Len(records[k].sections) =
            Len(parse_sections(WEIGHT_CONFIG, TextOf(records[k]))) + 1
       /\ Len(records[k].sections) >= 2
       /\ records[k].items # <<>>
  /\ \E k \in 1..Len(records) :
       /\ records[k].drop_off_location # ""
       /\ records[k].sections # <<>>
       /\ records[k].sections = parse_sections(WEIGHT_CONFIG, TextOf(records[k]))

\* the items and the sections of a record whose text has no section
ImplicitSection(r, items, rescue0, drop0) ==
  /\ r.items = items
  /\ rescue0 # "" => r.sections = << [location |-> rescue0, items |-> items] >>
  /\ (rescue0 = "" /\ drop0 # "") => r.sections = << [location |-> drop0, items |-> items] >>
  /\ (rescue0 = "" /\ drop0 = "") => r.sections = <<>>

IsLabel(lines, i) == HeadingOf(lines[i]) # <<>>

\* the lines after the label at line i, up to the next label or the end
RECURSIVE LinesUnder(_, _)
LinesUnder(lines, i) ==
  IF i + 1 > Len(lines) THEN <<>>
  ELSE IF IsLabel(lines, i + 1) THEN <<>>
  ELSE <<lines[i + 1]>> \o LinesUnder(lines, i + 1)

\* the items of the lines under the label at line i
ItemsUnder(lines, i) == parse_items(WEIGHT_CONFIG, Join(LinesUnder(lines, i), "\n"))

\* the labels of lines[i..] whose lines yield an item, in order, each with
\* these items
RECURSIVE LabelsWithItems(_, _)
LabelsWithItems(lines, i) ==
  IF i > Len(lines) THEN <<>>
  ELSE IF IsLabel(lines, i) /\ Strip(HeadingOf(lines[i])[1]) # "" /\ ItemsUnder(lines, i) # <<>>
  THEN << [location |-> clean_location(Strip(HeadingOf(lines[i])[1])),
           items |-> ItemsUnder(lines, i)] >> \o LabelsWithItems(lines, i + 1)
  ELSE LabelsWithItems(lines, i + 1)

\* C21: every section parse_sections returns has at least one item; the
\* sections are, in the order of the labels, those of the labels whose
\* following lines yield an item, so a label without such lines gives no
\* section; a text without label line gives no section.
C21_SectionsHaveItems ==
  (pc = "call" /\ call.fn = "parse_sections" /\ result # <<>>) =>
     /\ \A k \in 1..Len(result[1]) : result[1][k].items # <<>>
     /\ result[1] = LabelsWithItems(Split(normalize_text(call.text), "\n"), 1)
     /\ (\A i \in 1..Len(Split(normalize_text(call.text), "\n")) :
           ~IsLabel(Split(normalize_text(call.text), "\n"), i)) => result[1] = <<>>

\* of a label without lines, a label with an item line and a label with a
\* line that is no item, only the second gave a section
C21_Witness ==
  /\ pc = "call" /\ call.fn = "parse_sections"
  /\ call.text = "Aldi:\nUC:\n2 boxes apples"
  /\ result # <<>> /\ Len(result[1]) = 1 /\ result[1][1].location = "UC"

\* C25: the direction of every record is the one its own location fields
\* decide: "inbound" with a rescue location and no drop-off location, "both"
\* with the two, "outbound" with a drop-off location alone, also when the
\* rescue location came from the first section.
C25_DirectionAgreesWithLocations ==
  \A k \in 1..Len(records) :
    /\ (records[k].rescue_location # "" /\ records[k].drop_off_location = "") =>
          records[k].direction = "inbound"
    /\ (records[k].rescue_location # "" /\ records[k].drop_off_location # "") =>
          records[k].direction = "both"
    /\ (records[k].rescue_location = "" /\ records[k].drop_off_location # "") =>
          records[k].direction = "outbound"

\* the lines of the text of a record
LinesOf(r) == Split(normalize_text(TextOf(r)), "\n")

\* C26: the items of a record whose text has a label that yields a section
\* are the items of the lines that follow the labels, in order, and the items
\* of its sections are among them: a line before the first label gives the
\* record no item.
C26_ItemsFollowLabels ==
  \A k \in 1..Len(records) :
    parse_sections(WEIGHT_CONFIG, TextOf(records[k])) # <<>> =>
      /\ records[k].items = SectionItems(LabelsWithItems(LinesOf(records[k]), 1))
      /\ \A j \in 1..Len(records[k].sections) :
           \A m \in 1..Len(records[k].sections[j].items) :
             \E n \in 1..Len(records[k].items) :
               records[k].sections[j].items[m] = records[k].items[n]

\* a record with a section whose text starts with a line that is an item on
\* its own, an item that the record does not have
C26_Witness ==
  \E k \in 1..Len(records) :
    /\ records[k].sections # <<>>
    /\ records[k].items # <<>>
    /\ ~IsLabel(LinesOf(records[k]), 1)
    /\ parse_items(WEIGHT_CONFIG, LinesOf(records[k])[1]) # <<>>
    /\ \A n \in 1..Len(records[k].items) :
         records[k].items[n] # parse_items(WEIGHT_CONFIG, LinesOf(records[k])[1])[1]

(***************************************************************************)
(* POST /audit (slack_api.py, audit_record).  The endpoint is a plain def, *)
(* so the server runs each request in a thread of its pool: between the    *)
(* duplicate check of a request, which reads the store, and its save,      *)
(* which writes it, another request may do either.  A request is           *)
(* [rec, pc, status_code], pc "check" before the check and "save" after it *)
(* and "done" when it is answered, status_code 0 while there is no answer. *)
(***************************************************************************)
\* the most requests that are posted
MaxRequests == 2

\* true and false, which Python compares and tests as 1 and 0
JBool(b) == IF b THEN JNum(100) ELSE JNum(0)

\* isinstance(v, int) and 0 <= v <= 6
IsWeekday(v) == IsNum(v) /\ v[2] % 100 = 0 /\ 0 <= v[2] /\ v[2] <= 600

\* lines 664 to 672: whether the fields of a recurring record are refused
RecurringInvalid(rec) ==
  \/ ~Truthy(Get(rec, "rescue_location_canonical"))
  \/ ~IsWeekday(Get(rec, "day_of_week"))
  \/ ~Truthy(Get(rec, "sections"))
  \/ ~IsList(Get(rec, "sections"))

\* line 675: the recurring records of load_audited with another id
existing_recurring(loaded, rec) ==
  SelectSeq(loaded, LAMBDA r : Truthy(Get(r, "recurring")) /\ Get(r, "id") # Get(rec, "id"))

\* lines 676 to 679: whether one of them has the location and the day of rec
HasDuplicate(existing, rec) ==
  \E k \in 1..Len(existing) :
    /\ Get(existing[k], "rescue_location_canonical") = Get(rec, "rescue_location_canonical")
    /\ Get(existing[k], "day_of_week") = Get(rec, "day_of_week")

\* lines 655 to 679 over the records load_audited gave: the status of the
\* refusal, 0 when the record goes on to the store
audit_check(loaded, rec) ==
  IF Get(rec, "id") = JNull THEN 400
  ELSE IF ~Truthy(Get(rec, "recurring")) THEN 0
  ELSE IF RecurringInvalid(rec) THEN 400
  ELSE IF HasDuplicate(existing_recurring(loaded, rec), rec) THEN 409
  ELSE 0

\* lines 262 to 266 for one section: <<the section with its items weighed>>,
\* or <<>> when it raises (a section that is no object, an item that is none)
WeighedSection(section) ==
  IF ~IsObj(section) THEN <<>>
  ELSE IF ~Truthy(Get(section[2], "items")) THEN <<section>>
  ELSE IF ~IsList(Get(section[2], "items")) THEN <<>>
  ELSE IF add_estimated_weights(Get(section[2], "items")[2]) = <<>> THEN <<>>
  ELSE <<JObj(WithField(section[2], "items",
                        JList(add_estimated_weights(Get(section[2], "items")[2])[1])))>>

\* the items of a weighed section (section.get('items', []))
ItemsOfSection(section) == GetDefault(section[2], "items", JList(<<>>))[2]

RECURSIVE SumSections(_, _)
\* lines 269 to 274: the sum of the weights of the items of sections[k..]
SumSections(sections, k) ==
  IF k > Len(sections) THEN 0
  ELSE SumLbs(ItemsOfSection(sections[k]), 1) + SumSections(sections, k + 1)

\* whether lines 269 to 274 raise over weighed sections (items that are
\* null, a weight that float does not take)
TotalRaises(sections) ==
  \E k \in 1..Len(sections) :
    \/ ~IsList(GetDefault(sections[k][2], "items", JList(<<>>)))
    \/ TotalLbs(ItemsOfSection(sections[k])) = <<>>

\* the upsert of a row: the row with its id is replaced, or the row is added
Upsert(table, row) ==
  IF \E k \in 1..Len(table) : table[k].id = row.id
  THEN [k \in 1..Len(table) |-> IF table[k].id = row.id THEN row ELSE table[k]]
  ELSE Append(table, row)

\* the record with audited set, the weighed sections and their total
AuditedRecord(rec, sections) ==
  WithField(WithField(WithField(rec, "audited", JBool(TRUE)),
                      "sections", JList(sections)),
            "total_estimated_lbs", StoredTotal(SumSections(sections, 1)))

\* save_audited_record of a record with sections: <<the table after it>>,
\* <<>> when it raises
SaveSections(table, rec, sections) ==
  IF \E k \in 1..Len(sections) : WeighedSection(sections[k]) = <<>> THEN <<>>
  ELSE IF TotalRaises([k \in 1..Len(sections) |-> WeighedSection(sections[k])[1]]) THEN <<>>
  ELSE <<Upsert(table, [id |-> StrOf(Get(rec, "id")),
                        data |-> AuditedRecord(rec, [k \in 1..Len(sections) |->
                                                       WeighedSection(sections[k])[1]])])>>

\* save_audited_record: <<the table after it>>, <<>> when it raises
save_audited_record(table, rec) ==
  IF ~Truthy(Get(rec, "sections"))
  THEN <<Upsert(table, [id |-> StrOf(Get(rec, "id")),
                        data |-> WithField(WithField(rec, "audited", JBool(TRUE)),
                                           "total_estimated_lbs", JNull)])>>
  ELSE IF ~IsList(Get(rec, "sections")) THEN <<>>
  ELSE SaveSections(table, rec, Get(rec, "sections")[2])

\* delete_audited_record: the table without the row of the id
delete_audited_record(table, rec_id) ==
  SelectSeq(table, LAMBDA row : row.id # StrOf(rec_id))

\* lines 681 to 687: the table after the request
audit_store(table, rec) ==
  IF Truthy(Get(rec, "audited"))
  THEN IF save_audited_record(table, rec) = <<>> THEN table
       ELSE save_audited_record(table, rec)[1]
  ELSE delete_audited_record(table, Get(rec, "id"))

\* lines 681 to 687: the status of the answer
audit_status(table, rec) ==
  IF Truthy(Get(rec, "audited")) /\ save_audited_record(table, rec) = <<>> THEN 500 ELSE 200

AldiSection ==
  JObj([location_canonical |-> JStr("Aldi"), items |-> JList(<<JObj(Apples), JObj(Weighed25)>>)])

\* the records of the requests: recurring ones of two ids at Aldi and at UC
\* on Monday, record "a" also on Tuesday and not recurring, a request to
\* withdraw "a", and records that are refused or that the store fails on
SampleRecords ==
  [k \in 1..4 |->
     [id |-> JStr(IF k <= 2 THEN "a" ELSE "b"), recurring |-> JBool(TRUE), audited |-> JBool(TRUE),
      rescue_location_canonical |-> JStr(IF k % 2 = 1 THEN "Aldi" ELSE "UC"),
      day_of_week |-> JNum(0), sections |-> JList(<<AldiSection>>)]]
  \o << [id |-> JStr("a"), recurring |-> JBool(TRUE), audited |-> JBool(TRUE),
         rescue_location_canonical |-> JStr("Aldi"), day_of_week |-> JNum(100),
         sections |-> JList(<<AldiSection>>)],
        [id |-> JStr("a"), recurring |-> JBool(FALSE), audited |-> JBool(TRUE),
         rescue_location_canonical |-> JStr("Aldi"), sections |-> JList(<<AldiSection>>)],
        [id |-> JStr("a"), audited |-> JBool(FALSE)],
        [recurring |-> JBool(TRUE), audited |-> JBool(TRUE)],
        [id |-> JStr("b"), recurring |-> JBool(TRUE), audited |-> JBool(TRUE),
         rescue_location_canonical |-> JStr("Aldi"), day_of_week |-> JNum(700),
         sections |-> JList(<<AldiSection>>)],
        [id |-> JStr("b"), recurring |-> JBool(TRUE), audited |-> JBool(TRUE),
         rescue_location_canonical |-> JStr("UC"), day_of_week |-> JNum(0),
         sections |-> JList(<<JStr("apples")>>)] >>

InitAudit ==
  /\ rescue_logs = <<>> /\ slack_messages_audited = <<>>
  /\ requests = <<>>
  /\ pc = "serve"
  /\ rows = <<>> /\ window = 0 /\ groups = <<>> /\ records = <<>>
  /\ CallIdle /\ TrainerIdle

\* a client posts a record to /audit
PostAudit ==
  /\ pc = "serve"
  /\ Len(requests) < MaxRequests
  /\ \E k \in 1..Len(SampleRecords) :
       requests' = Append(requests, [rec |-> SampleRecords[k], pc |-> "check", status_code |-> 0])
  /\ UNCHANGED <<rows, window, groups, records, pc, call, result, rescue_logs,
                 slack_messages_audited, registry, trainer>>

\* lines 655 to 679 of a request: the payload is validated and compared with
\* the recurring records load_audited reads from the store
AuditCheck ==
  \E i \in 1..Len(requests) :
    /\ requests[i].pc = "check"
    /\ requests' =
         [requests EXCEPT
            ![i].pc = IF audit_check(load_audited(slack_messages_audited, rescue_logs),
                                     requests[i].rec) = 0 THEN "save" ELSE "done",
            ![i].status_code = audit_check(load_audited(slack_messages_audited, rescue_logs),
                                           requests[i].rec)]
    /\ UNCHANGED <<rows, window, groups, records, pc, call, result, rescue_logs,
                   slack_messages_audited, registry, trainer>>

\* lines 681 to 687 of a request: the record is saved or deleted and the
\* request answered
AuditSave ==
  \E i \in 1..Len(requests) :
    /\ requests[i].pc = "save"
    /\ slack_messages_audited' = audit_store(slack_messages_audited, requests[i].rec)
    /\ requests' = [requests EXCEPT ![i].pc = "done",
                                    ![i].status_code =
                                       audit_status(slack_messages_audited, requests[i].rec)]
    /\ UNCHANGED <<rows, window, groups, records, pc, call, result, rescue_logs,
                   registry, trainer>>

NextAudit == PostAudit \/ AuditCheck \/ AuditSave

SpecAudit == InitAudit /\ [][NextAudit]_vars

\* the recurring records of the store
RecurringStored ==
  {k \in 1..Len(slack_messages_audited) :
     Truthy(Get(slack_messages_audited[k].data, "recurring"))}

\* no two recurring records of the store with different ids have the same
\* location and the same day
NoDuplicateRecurring ==
  \A j, k \in RecurringStored :
    (/\ Get(slack_messages_audited[j].data, "id") # Get(slack_messages_audited[k].data, "id")
     /\ Get(slack_messages_audited[j].data, "rescue_location_canonical")
          = Get(slack_messages_audited[k].data, "rescue_location_canonical"))
    => Get(slack_messages_audited[j].data, "day_of_week")
         # Get(slack_messages_audited[k].data, "day_of_week")

\* the step answers a request with 409
Answers409 ==
  \E i \in 1..Len(requests) :
    /\ requests[i].status_code = 0
    /\ Len(requests') = Len(requests)
    /\ requests'[i].status_code = 409

\* C27: the audited store never holds two recurring records with different
\* ids and the same pair (rescue_location_canonical, day_of_week), also when
\* the requests run concurrently; and a step that answers a request with 409
\* leaves the store as it was.
C27_NoDuplicateRecurring ==
  /\ []NoDuplicateRecurring
  /\ [][Answers409 => slack_messages_audited' = slack_messages_audited]_vars

(***************************************************************************)
(* The model registry (manage_models.py) and the training pipeline         *)
(* (lambda_train.py).  The registry is the contents of model_registry.json *)
(* (<<>> while there is no file): the models, each [version,               *)
(* adapter_path], and active_version, null or a string.  The trainer is    *)
(* the LambdaLabsTrainer of the run in progress: its version, dry_run,     *)
(* instance_id (<<>> for None), metadata status and adapter_path, the      *)
(* instance ids of the terminate requests it has issued, the position pc   *)
(* of run() and what run() returned ("" while it runs, "raised" when it    *)
(* ended in an exception).  Every step of the pipeline that talks to the   *)
(* cloud, the instance or the disk succeeds or raises.                     *)
(***************************************************************************)
\* the most runs of the pipeline
MaxRuns == 2

Versions == {"v1", "v2"}

\* the registry load() and save_metadata start from when there is no file
EmptyRegistry == [models |-> <<>>, active_version |-> JNull]

\* ModelRegistry.load, and lines 395 to 400 of save_metadata
LoadRegistry(file) == IF file = <<>> THEN EmptyRegistry ELSE file

\* the place of the first model of the version, 0 when there is none
ExistingIdx(models, version) ==
  IF \E k \in 1..Len(models) : models[k].version = version
  THEN CHOOSE k \in 1..Len(models) :
         /\ models[k].version = version
         /\ \A j \in 1..(k - 1) : models[j].version # version
  ELSE 0

\* ModelRegistry.get_model: <<the model>>, <<>> for None
get_model(data, version) ==
  IF ExistingIdx(data.models, version) = 0 THEN <<>>
  ELSE <<data.models[ExistingIdx(data.models, version)]>>

\* ModelRegistry.set_active on the file: the file after it
set_active(file, version) ==
  IF get_model(LoadRegistry(file), version) = <<>> THEN file
  ELSE [LoadRegistry(file) EXCEPT !.active_version = JStr(version)]

\* what set_active returns
SetActiveReturns(file, version) == get_model(LoadRegistry(file), version) # <<>>

\* line 82: the models of other versions
updated_models(models, version) == SelectSeq(models, LAMBDA m : m.version # version)

\* what delete_model returns
DeleteReturns(file, version) ==
  Len(updated_models(LoadRegistry(file).models, version)) # Len(LoadRegistry(file).models)

\* a faulty variant: the active version stays
ActiveKept(active_version, version) == active_version

\* lines 90 to 92: the active version after the models of version are gone
ActiveAfterDelete(active_version, version) ==
  IF active_version = JStr(version) THEN JNull ELSE active_version

\* ModelRegistry.delete_model on the file: the file after it
delete_model(file, version) ==
  IF ~DeleteReturns(file, version) THEN file
  ELSE [models |-> updated_models(LoadRegistry(file).models, version),
        active_version |-> ActiveAfterDelete(LoadRegistry(file).active_version, version)]

\* lines 403 to 410: the entry of the run in the registry
model_entry(version, adapter_path) == [version |-> version, adapter_path |-> adapter_path]

\* lines 412 to 422: the entry replaces the first model of its version or is
\* appended
WithEntry(models, entry) ==
  IF ExistingIdx(models, entry.version) # 0
  THEN [models EXCEPT ![ExistingIdx(models, entry.version)] = entry]
  ELSE Append(models, entry)

\* lines 424 to 426: the version becomes active if none is or if its model is
\* the only one
ActiveAfterSave(active_version, models, version) ==
  IF ~Truthy(active_version) \/ Len(models) = 1 THEN JStr(version) ELSE active_version

\* lines 394 to 429 of save_metadata: the registry file after it
save_metadata(file, version, adapter_path) ==
  [models |-> WithEntry(LoadRegistry(file).models, model_entry(version, adapter_path)),
   active_version |->
     ActiveAfterSave(LoadRegistry(file).active_version,
                     WithEntry(LoadRegistry(file).models, model_entry(version, adapter_path)),
                     version)]

\* LambdaLabsTrainer.__init__ for the n-th run
NewTrainer(version, dry_run, n) ==
  [version |-> version, dry_run |-> dry_run, run |-> n, pc |-> "provision",
   instance_id |-> <<>>, status |-> "pending", adapter_path |-> "",
   terminate_requests |-> <<>>, returned |-> ""]

\* a faulty variant: the instance is terminated after a completed run only
cleanup_instance_completed(t) ==
  IF t.instance_id = <<>> THEN t.terminate_requests
  ELSE IF t.dry_run \/ t.status # "completed" THEN t.terminate_requests
  ELSE Append(t.terminate_requests, t.instance_id[1])

\* cleanup_instance: the terminate requests after it
cleanup_instance(t) ==
  IF t.instance_id = <<>> THEN t.terminate_requests
  ELSE IF t.dry_run THEN t.terminate_requests
  ELSE Append(t.terminate_requests, t.instance_id[1])

\* lines 467 to 470: the finally clause of run
FinallyOf(t) ==
  IF t.dry_run THEN t.terminate_requests ELSE cleanup_instance(t)

\* the registries the runs and the commands start from
SampleRegistries ==
  { <<>>,
    EmptyRegistry,
    [models |-> <<model_entry("v1", "checkpoints/slack-lora-v1")>>, active_version |-> JStr("v1")],
    [models |-> <<model_entry("v1", "checkpoints/slack-lora-v1"),
                  model_entry("v2", "checkpoints/slack-lora-v2")>>,
     active_version |-> JStr("v2")],
    [models |-> <<model_entry("v2", "checkpoints/slack-lora-v2"),
                  model_entry("v1", "checkpoints/slack-lora-v1")>>,
     active_version |-> JNull] }

InitTrainer ==
  /\ registry \in SampleRegistries
  /\ trainer = <<>>
  /\ pc = "idle"
  /\ rows = <<>> /\ window = 0 /\ groups = <<>> /\ records = <<>>
  /\ CallIdle /\ TablesEmpty /\ NoRequests

\* the runs so far
RunsSoFar == IF trainer = <<>> THEN 0 ELSE trainer.run

\* whether run() is at the position
At(position) == trainer # <<>> /\ trainer.pc = position

\* no run is in progress
NoRun == IF trainer = <<>> THEN TRUE ELSE trainer.pc = "returned"

\* main of lambda_train.py: a trainer is made and its run begins
StartRun ==
  /\ NoRun
  /\ RunsSoFar < MaxRuns
  /\ \E version \in Versions, dry_run \in BOOLEAN :
       trainer' = NewTrainer(version, dry_run, RunsSoFar + 1)
  /\ UNCHANGED <<rows, window, groups, records, pc, call, result, rescue_logs,
                 slack_messages_audited, requests, registry>>

\* provision_instance up to line 156: the instance is launched and its id
\* recorded, or an exception is raised before (no capacity, a request that
\* fails, no instance id in the answer)
Provision ==
  /\ At("provision")
  /\ \/ /\ trainer.dry_run
        /\ trainer' = [trainer EXCEPT !.instance_id = <<"dry-run-instance-id">>,
                                      !.pc = "wait_for_ssh"]
     \/ /\ ~trainer.dry_run
        /\ \/ trainer' = [trainer EXCEPT !.instance_id = <<"i-1">>, !.pc = "wait_active"]
           \/ trainer' = [trainer EXCEPT !.pc = "except"]
  /\ UNCHANGED <<rows, window, groups, records, pc, call, result, rescue_logs,
                 slack_messages_audited, requests, registry>>

\* provision_instance from line 161: the instance becomes active, or it does
\* not within max_wait, or get_instance_info raises
WaitActive ==
  /\ At("wait_active")
  /\ \/ trainer' = [trainer EXCEPT !.pc = "wait_for_ssh"]
     \/ trainer' = [trainer EXCEPT !.pc = "except"]
  /\ UNCHANGED <<rows, window, groups, records, pc, call, result, rescue_logs,
                 slack_messages_audited, requests, registry>>

\* a step of the pipeline between two positions: it returns (always, in a
\* dry run) or it raises
PipelineStep(from, to) ==
  /\ At(from)
  /\ \/ trainer' = [trainer EXCEPT !.pc = to]
     \/ ~trainer.dry_run /\ trainer' = [trainer EXCEPT !.pc = "except"]
  /\ UNCHANGED <<rows, window, groups, records, pc, call, result, rescue_logs,
                 slack_messages_audited, requests, registry>>

WaitForSsh == PipelineStep("wait_for_ssh", "upload")

UploadCodeAndData == PipelineStep("upload", "train")

RunRemoteTraining == PipelineStep("train", "download")

\* download_adapter: the adapter is downloaded and verified and its path
\* noted, or rsync or the verification raises; a dry run notes nothing
DownloadAdapter ==
  /\ At("download")
  /\ \/ /\ trainer.dry_run
        /\ trainer' = [trainer EXCEPT !.pc = "save"]
     \/ /\ ~trainer.dry_run
        /\ \/ trainer' = [trainer EXCEPT
                            !.adapter_path = "checkpoints/slack-lora-" \o trainer.version,
                            !.pc = "save"]
           \/ trainer' = [trainer EXCEPT !.pc = "except"]
  /\ UNCHANGED <<rows, window, groups, records, pc, call, result, rescue_logs,
                 slack_messages_audited, requests, registry>>

\* lines 453 to 458: the status is "completed" and the metadata are saved, or
\* saving raises before the registry is written
SaveCompleted ==
  /\ At("save")
  /\ \/ /\ registry' = save_metadata(registry, trainer.version, trainer.adapter_path)
        /\ trainer' = [trainer EXCEPT !.status = "completed", !.returned = "True",
                                      !.pc = "finally"]
     \/ /\ registry' = registry
        /\ trainer' = [trainer EXCEPT !.status = "completed", !.pc = "except"]
  /\ UNCHANGED <<rows, window, groups, records, pc, call, result, rescue_logs,
                 slack_messages_audited, requests>>

\* lines 460 to 465: the handler sets the status "failed" and saves the
\* metadata, or saving raises and the exception leaves run
HandleException ==
  /\ At("except")
  /\ \/ /\ registry' = save_metadata(registry, trainer.version, trainer.adapter_path)
        /\ trainer' = [trainer EXCEPT !.status = "failed", !.returned = "False",
                                      !.pc = "finally"]
     \/ /\ registry' = registry
        /\ trainer' = [trainer EXCEPT !.status = "failed", !.returned = "raised",
                                      !.pc = "finally"]
  /\ UNCHANGED <<rows, window, groups, records, pc, call, result, rescue_logs,
                 slack_messages_audited, requests>>

\* lines 467 to 470: the finally clause, after which run is over
Cleanup ==
  /\ At("finally")
  /\ trainer' = [trainer EXCEPT !.terminate_requests = FinallyOf(trainer), !.pc = "returned"]
  /\ UNCHANGED <<rows, window, groups, records, pc, call, result, rescue_logs,
                 slack_messages_audited, requests, registry>>

\* manage_models.py set-active
SetActive ==
  \E version \in Versions :
    /\ call' = [fn |-> "set_active", version |-> version]
    /\ result' = <<SetActiveReturns(registry, version)>>
    /\ registry' = set_active(registry, version)
    /\ UNCHANGED <<rows, window, groups, records, pc, rescue_logs,
                   slack_messages_audited, requests, trainer>>

\* manage_models.py delete
DeleteModel ==
  \E version \in Versions :
    /\ call' = [fn |-> "delete_model", version |-> version]
    /\ result' = <<DeleteReturns(registry, version)>>
    /\ registry' = delete_model(registry, version)
    /\ UNCHANGED <<rows, window, groups, records, pc, rescue_logs,
                   slack_messages_audited, requests, trainer>>

NextTrainer ==
  \/ StartRun \/ Provision \/ WaitActive \/ WaitForSsh \/ UploadCodeAndData
  \/ RunRemoteTraining \/ DownloadAdapter \/ SaveCompleted \/ HandleException \/ Cleanup
  \/ SetActive \/ DeleteModel

SpecTrainer == InitTrainer /\ [][NextTrainer]_vars

\* run() is over for a trainer that launched an instance outside a dry run
LaunchedAndOver ==
  /\ At("returned")
  /\ ~trainer.dry_run
  /\ trainer.instance_id # <<>>

\* a terminate request has been issued
TerminateIssued == trainer # <<>> /\ trainer.terminate_requests # <<>>

\* C28: in a run that is no dry run, once an instance is launched and its id
\* recorded, a terminate request for that instance has been issued when
\* run() is over, on the success path and on every failure path; and after
\* the terminate request the run takes no further step (the trainer only
\* changes when the next run begins).
C28_TerminateBeforeReturn ==
  /\ [](LaunchedAndOver => trainer.terminate_requests = <<trainer.instance_id[1]>>)
  /\ [][TerminateIssued => (trainer' = trainer \/ trainer'.run = trainer.run + 1)]_vars

\* a run that failed after the launch is over, each failure path
C28_Witness ==
  /\ LaunchedAndOver
  /\ trainer.returned = "False"
  /\ trainer.terminate_requests = <<"i-1">>

\* active_version of the registry file as load() reads it
ActiveVersionOf(file) == LoadRegistry(file).active_version

\* whether the registry file has a model of the version
Registered(file, version) == get_model(LoadRegistry(file), version) # <<>>

\* the stored active_version is null or the version of a model of the list
ActiveIsRegistered ==
  \/ ActiveVersionOf(registry) = JNull
  \/ \E k \in 1..Len(LoadRegistry(registry).models) :
       ActiveVersionOf(registry) = JStr(LoadRegistry(registry).models[k].version)

\* the step is the command set-active of a version that is not registered
SetActiveOfUnregistered(version) ==
  /\ trainer' = trainer
  /\ call' = [fn |-> "set_active", version |-> version]
  /\ ~Registered(registry, version)

\* the step is the command delete of the active version
DeleteOfActive(version) ==
  /\ trainer' = trainer
  /\ call' = [fn |-> "delete_model", version |-> version]
  /\ ActiveVersionOf(registry) = JStr(version)

\* C29: from a registry whose active_version is null or registered, after
\* any sequence of set_active, delete_model and save_metadata the stored
\* active_version is null or the version of a model of the list; set_active
\* of an unregistered version returns False and changes nothing; deleting
\* the active model clears active_version.
C29_ActiveVersionRegistered ==
  /\ []ActiveIsRegistered
  /\ [][\A version \in Versions :
          SetActiveOfUnregistered(version) => (registry' = registry /\ result' = <<FALSE>>)]_vars
  /\ [][\A version \in Versions :
          DeleteOfActive(version) => ActiveVersionOf(registry') = JNull]_vars

\* after a run that saved its model, which made some version active, the
\* active model has been deleted and another is left
C29_Witness ==
  /\ At("returned")
  /\ trainer.returned = "True"
  /\ call = [fn |-> "delete_model", version |-> trainer.version]
  /\ result = <<TRUE>>
  /\ ActiveVersionOf(registry) = JNull
  /\ Len(LoadRegistry(registry).models) > 0

\* the step is one of the run in progress and makes its version the active one
RunActivatesItsVersion ==
  /\ trainer # <<>>
  /\ trainer' # trainer
  /\ trainer'.run = trainer.run
  /\ ActiveVersionOf(registry') # ActiveVersionOf(registry)
  /\ ActiveVersionOf(registry') = JStr(trainer.version)

\* C30: a run makes its version the registry's active_version only if it
\* completed all steps: the training succeeded and the adapter was
\* downloaded and verified (its path is noted) and the status is
\* "completed"; a run that failed never does.
C30_OnlyCompletedRunActivates ==
  [][RunActivatesItsVersion =>
       (trainer'.status = "completed" /\ trainer'.adapter_path # "")]_vars

=============================================================================
